---------------------------- MODULE Spec2Model ----------------------------
(***************************************************************************)
(* Model of the carrier-integration core:                                  *)
(*   - the UPS OAuth token cache (infra/auth/ups-auth.ts): the module      *)
(*     variable `cached`, getUpsAccessToken, fetchUpsAccessToken,          *)
(*     clearUpsTokenCache;                                                 *)
(*   - the rate aggregation service (src/services/rate-service.ts):        *)
(*     RateService.getRates over Object.entries(providers) joined with     *)
(*     Promise.allSettled, and RateService.getRatesFromProvider;           *)
(*   - the UPS adapter (infra/carriers/ups/ups-carrier.ts):                *)
(*     UpsCarrier.getRates, which gets its Authorization header from the   *)
(*     token cache and posts one rate request.                             *)
(* JavaScript runs one callback at a time: an async function runs          *)
(* synchronously up to its first await, and resumes in a later step.       *)
(* Each action below is one such uninterrupted run.                        *)
(***************************************************************************)
EXTENDS Integers, Sequences, FiniteSets

VARIABLES
    cached,        \* ups-auth.ts:32  <<>> is null, <<entry>> is a CachedToken
    now,           \* Date.now() in milliseconds
    calls,         \* the getUpsAccessToken invocations awaiting their token request
    last,          \* the invocation that finished most recently, as its caller saw it
    fetchCount,    \* number of requests sent to the token endpoint so far
    fetches,       \* per token request: when it was sent and what the answer granted
    clears,        \* number of clearUpsTokenCache calls so far
    justCleared,   \* TRUE from a clearUpsTokenCache until the next call starts
    burst          \* the cache hits since `cached` was last assigned

authVars == <<cached, now, calls, last, fetchCount, fetches, clears, justCleared, burst>>

VARIABLES
    providers,     \* rate-service.ts:21  the names of config.providers, as inserted
    rsPc,          \* RateService.getRates: "idle", "awaiting" (allSettled), "done";
                   \* getRatesFromProvider: "one_awaiting", "one_done"
    entries,       \* rate-service.ts:33  the names of Object.entries(providers)
    promises,      \* rate-service.ts:39  the promise of each entry's invocation
    arrival,       \* the indices of `entries` in the order their promises settled
    produced,      \* per adapter name: what its getRates produced
    result,        \* <<>> or <<the RateServiceResult returned>>; for
                   \* getRatesFromProvider <<the settled state of its promise>>
    request,       \* the RateRequestInput the caller passes
    invocations,   \* per adapter name: the requests its getRates was called with
    asked          \* the providerName getRatesFromProvider was called with

rateVars ==
    <<providers, rsPc, entries, promises, arrival, produced, result, request,
      invocations, asked>>

VARIABLES
    ups,           \* the UpsCarrier.getRates invocation: where it stands, the
                   \* requests it has sent and how its promise settled
    http,          \* the FetchClient.request call made last: what `fetch` gave
                   \* it and how its promise settled
    mapped         \* the mapUpsRateResponseToQuote call made last: its argument
                   \* and how it completed

upsVars == <<ups, http, mapped>>

vars == <<authVars, rateVars, upsVars>>

-----------------------------------------------------------------------------
(* Bounds of the model *)

\* getUpsAccessToken invocations that can await their token request together
NumCalls == 2
\* token requests sent in one behaviour
MaxFetches == 2
MaxTicks == 1
ClockStepSec == 100
MaxClears == 1

\* adapters registered with one RateService
MaxProviders == 3
\* adapters registered where the request varies
MaxDispatch == 2
\* UpsCarrier.getRates invocations in one behaviour
MaxUpsCalls == 2
\* entries of NegotiatedRateCharges.ItemizedCharges in a rate response
MaxItemized == 2
\* entries of RateResponse.RatedShipment in a rate response
MaxShipments == 2

(* Program constants *)

REFRESH_BUFFER_SEC == 300

-----------------------------------------------------------------------------
(* Token cache: data *)

Callers == 1..NumCalls

Tokens == 1..MaxFetches

Null == <<>>

\* the UpsAuthConfig values getUpsAccessToken is called with: two sets of
\* credentials; the first is the one UpsCarrier is configured with
Configs == {"configA", "configB"}

DefaultConfig == "configA"

\* expires_in as it stands in the response body: <<>> when the field is absent
RawExpiresIn == {<<>>, <<400>>, <<600>>}

ResponseKinds == {"ok", "http_error", "bad_json", "malformed", "network"}

Responses ==
    [kind : {"ok"}, expires_in : RawExpiresIn]
        \cup [kind : ResponseKinds \ {"ok"}, expires_in : {<<>>}]

\* No invocation.  An invocation records what it read (nowMs, seen), the token
\* request it sent (fetchId, acquisitions, and inFlightWith: the requests that
\* were in flight during its own; epoch: the value of `clears` when it started)
\* and how it ended (the token and its remaining lifetime at the return, or the
\* error thrown; the cache before and after its last step).
NoCall ==
    [pc |-> "idle", config |-> DefaultConfig,
     nowMs |-> 0, seen |-> Null, acquisitions |-> 0, fetchId |-> 0,
     inFlightWith |-> {}, epoch |-> 0, firstAfterClear |-> FALSE,
     clearedDuring |-> FALSE,
     token |-> 0, remainingMs |-> 0, latencyMs |-> 0,
     cacheBefore |-> Null, cacheAfter |-> Null, error |-> "none"]

NoFetch ==
    [config |-> DefaultConfig, sentAtMs |-> 0, epoch |-> 0, done |-> FALSE,
     answer |-> Null]

NoBurst == [hits |-> 0, tokens |-> {}]

\* Number(o.expires_in) || 0
NumberOrZero(raw) == IF raw = <<>> THEN 0 ELSE raw[1]

\* parseTokenResponse: the fields getUpsAccessToken uses.  The endpoint issues
\* one token per request; the token answering request number n is named n.
parseTokenResponse(resp, n) ==
    [access_token |-> n, expires_in |-> NumberOrZero(resp.expires_in)]

\* fetchUpsAccessToken: the error it throws, "none" when it returns
fetchError(resp) ==
    CASE resp.kind = "network"    -> "fetch rejected"
      [] resp.kind = "http_error" -> "UPS OAuth token request failed"
      [] resp.kind = "bad_json"   -> "res.json rejected"
      [] resp.kind = "malformed"  -> "Invalid UPS token response: missing access_token"
      [] OTHER                    -> "none"

\* (faulty variants of the check: no buffer, inverted, non-strict, doubled,
\* and one that trusts no entry)
IsFresh_Never(c, nowMs) == FALSE

IsFresh_NoBuffer(c, nowMs) ==
    c # Null /\ c[1].expiresAtMs > nowMs

IsFresh_Inverted(c, nowMs) ==
    c # Null /\ c[1].expiresAtMs < nowMs + (REFRESH_BUFFER_SEC * 1000)

IsFresh_AtBuffer(c, nowMs) ==
    c # Null /\ c[1].expiresAtMs >= nowMs + (REFRESH_BUFFER_SEC * 1000)

IsFresh_DoubleBuffer(c, nowMs) ==
    c # Null /\ c[1].expiresAtMs > nowMs + (REFRESH_BUFFER_SEC * 1000) * 2

\* the check of getUpsAccessToken: cached && cached.expiresAtMs > refreshAtMs
IsFresh(c, nowMs) ==
    c # Null /\ c[1].expiresAtMs > nowMs + (REFRESH_BUFFER_SEC * 1000)

\* (variant: the expiry counts from the clock at the time of the write)
NewEntry_AtArrival(old, nowMs, tokenResponse) ==
    [accessToken |-> tokenResponse.access_token,
     expiresAtMs |-> now + tokenResponse.expires_in * 1000]

\* (variant: expires_in is taken for milliseconds)
NewEntry_Seconds(old, nowMs, tokenResponse) ==
    [accessToken |-> tokenResponse.access_token,
     expiresAtMs |-> nowMs + tokenResponse.expires_in]

\* (variant: the expiry of the entry already cached is kept)
NewEntry_Merge(old, nowMs, tokenResponse) ==
    [accessToken |-> tokenResponse.access_token,
     expiresAtMs |-> IF old = Null THEN nowMs + tokenResponse.expires_in * 1000
                     ELSE old[1].expiresAtMs]

\* the entry getUpsAccessToken stores: a new object, both fields from one response
NewEntry(old, nowMs, tokenResponse) ==
    [accessToken |-> tokenResponse.access_token,
     expiresAtMs |-> nowMs + tokenResponse.expires_in * 1000]

\* (variant: an entry that expires later than the new one is kept)
CacheOnResume_KeepLater(old, nowMs, resp, n) ==
    IF fetchError(resp) # "none" THEN old
    ELSE IF old # Null
            /\ old[1].expiresAtMs >
                   NewEntry(old, nowMs, parseTokenResponse(resp, n)).expiresAtMs
    THEN old
    ELSE <<NewEntry(old, nowMs, parseTokenResponse(resp, n))>>

\* (variant: a failed acquisition is remembered as an entry without token)
CacheOnResume_RememberFailure(old, nowMs, resp, n) ==
    IF fetchError(resp) # "none"
    THEN <<[accessToken |-> 0,
            expiresAtMs |-> nowMs + 2 * REFRESH_BUFFER_SEC * 1000]>>
    ELSE <<NewEntry(old, nowMs, parseTokenResponse(resp, n))>>

\* (variant: a failed acquisition empties the cache)
CacheOnResume_ClearOnError(old, nowMs, resp, n) ==
    IF fetchError(resp) # "none" THEN Null
    ELSE <<NewEntry(old, nowMs, parseTokenResponse(resp, n))>>

\* `cached` after the continuation of getUpsAccessToken: when
\* fetchUpsAccessToken throws, the assignment is never reached
CacheOnResume(old, nowMs, resp, n) ==
    IF fetchError(resp) # "none" THEN old
    ELSE <<NewEntry(old, nowMs, parseTokenResponse(resp, n))>>

InFlight == {c \in Callers : calls[c].pc = "fetching"}

Min(a, b) == IF a < b THEN a ELSE b

-----------------------------------------------------------------------------
(* Token cache: operations *)

InitAuth ==
    /\ cached = Null
    /\ now = 0
    /\ calls = [c \in Callers |-> NoCall]
    /\ last = NoCall
    /\ fetchCount = 0
    /\ fetches = [t \in Tokens |-> NoFetch]
    /\ clears = 0
    /\ justCleared = FALSE
    /\ burst = NoBurst

\* getUpsAccessToken up to its first await: sample the clock, check the cache,
\* return the cached token or send the token request.
\* A new invocation takes the lowest slot that awaits no request.
GetUpsAccessTokenFor(c, config) ==
    /\ calls[c].pc = "idle"
    /\ \A d \in Callers : d < c => calls[d].pc = "fetching"
    /\ LET nowMs == now
           started == [NoCall EXCEPT !.config = config,
                                     !.nowMs = nowMs, !.seen = cached,
                                     !.epoch = clears,
                                     !.firstAfterClear = justCleared]
       IN  IF IsFresh(cached, nowMs)
           THEN /\ last' = [started EXCEPT !.pc = "returned",
                                           !.token = cached[1].accessToken,
                                           !.remainingMs = cached[1].expiresAtMs - now,
                                           !.cacheBefore = cached,
                                           !.cacheAfter = cached]
                /\ burst' = [hits |-> Min(burst.hits + 1, 2),
                             tokens |-> burst.tokens \cup {cached[1].accessToken}]
                /\ UNCHANGED <<calls, fetchCount, fetches>>
           ELSE /\ fetchCount < MaxFetches
                /\ calls' = [d \in Callers |->
                        IF d = c
                        THEN [started EXCEPT !.pc = "fetching",
                                             !.acquisitions = @ + 1,
                                             !.fetchId = fetchCount + 1,
                                             !.inFlightWith =
                                                 {calls[e].fetchId : e \in InFlight}]
                        ELSE IF d \in InFlight
                        THEN [calls[d] EXCEPT !.inFlightWith = @ \cup {fetchCount + 1}]
                        ELSE calls[d]]
                /\ fetchCount' = fetchCount + 1
                /\ fetches' = [fetches EXCEPT ![fetchCount + 1] =
                                   [config |-> config,
                                    sentAtMs |-> nowMs, epoch |-> clears,
                                    done |-> FALSE, answer |-> Null]]
                /\ UNCHANGED <<last, burst>>
    /\ justCleared' = FALSE
    /\ UNCHANGED <<cached, now, clears>>

\* ... with the one config of the application
GetUpsAccessTokenSync(c) == GetUpsAccessTokenFor(c, DefaultConfig)

\* getUpsAccessToken called by a client that has several configs
GetUpsAccessTokenWith(c, config) ==
    /\ GetUpsAccessTokenFor(c, config)
    /\ UNCHANGED rateVars
    /\ UNCHANGED upsVars

\* getUpsAccessToken called by a client of the module
GetUpsAccessToken(c) ==
    /\ GetUpsAccessTokenSync(c)
    /\ UNCHANGED rateVars
    /\ UNCHANGED upsVars

\* getUpsAccessToken after `await fetchUpsAccessToken(config)`: the request of
\* the invocation in slot c is answered with resp.  fetchUpsAccessToken's own
\* awaits touch only locals, so the answer and the cache write are one step.
GetUpsAccessTokenAwaited(c, resp) ==
    /\ calls[c].pc = "fetching"
    /\ cached' = CacheOnResume(cached, calls[c].nowMs, resp, calls[c].fetchId)
    /\ IF fetchError(resp) # "none"
       THEN /\ last' = [calls[c] EXCEPT !.pc = "failed",
                                        !.error = fetchError(resp),
                                        !.latencyMs = now - calls[c].nowMs,
                                        !.cacheBefore = cached,
                                        !.cacheAfter = cached']
            /\ fetches' = [fetches EXCEPT ![calls[c].fetchId].done = TRUE]
       ELSE /\ last' = [calls[c] EXCEPT
                        !.pc = "returned",
                        !.token = cached'[1].accessToken,
                        !.remainingMs = cached'[1].expiresAtMs - now,
                        !.latencyMs = now - calls[c].nowMs,
                        !.cacheBefore = cached,
                        !.cacheAfter = cached']
            /\ fetches' = [fetches EXCEPT
                        ![calls[c].fetchId].done = TRUE,
                        ![calls[c].fetchId].answer =
                            <<parseTokenResponse(resp, calls[c].fetchId)>>]
    /\ burst' = IF cached' = cached THEN burst ELSE NoBurst
    /\ calls' = [calls EXCEPT ![c] = NoCall]
    /\ UNCHANGED <<now, fetchCount, clears, justCleared>>

\* ... of an invocation made by a client of the module
GetUpsAccessTokenResume(c, resp) ==
    /\ c # ups.slot
    /\ GetUpsAccessTokenAwaited(c, resp)
    /\ UNCHANGED rateVars
    /\ UNCHANGED upsVars

\* (variant: the token acquired is also put in the cache)
FetchUpsAccessToken_Caching(config, resp) ==
    /\ fetchCount < MaxFetches
    /\ InFlight = {}
    /\ fetchCount' = fetchCount + 1
    /\ fetches' = [fetches EXCEPT ![fetchCount + 1] =
                       [config |-> config, sentAtMs |-> now, epoch |-> clears,
                        done |-> TRUE,
                        answer |-> IF fetchError(resp) # "none" THEN Null
                                   ELSE <<parseTokenResponse(resp, fetchCount + 1)>>]]
    /\ cached' = CacheOnResume(cached, now, resp, fetchCount + 1)
    /\ UNCHANGED <<now, calls, last, clears, justCleared, burst>>
    /\ UNCHANGED rateVars
    /\ UNCHANGED upsVars

\* fetchUpsAccessToken called by a client of the module, from its request to
\* its return or throw: the endpoint answers request number fetchCount + 1.
\* The function reads and writes nothing but its locals.
FetchUpsAccessToken(config, resp) ==
    /\ fetchCount < MaxFetches
    /\ InFlight = {}
    /\ fetchCount' = fetchCount + 1
    /\ fetches' = [fetches EXCEPT ![fetchCount + 1] =
                       [config |-> config, sentAtMs |-> now, epoch |-> clears,
                        done |-> TRUE,
                        answer |-> IF fetchError(resp) # "none" THEN Null
                                   ELSE <<parseTokenResponse(resp, fetchCount + 1)>>]]
    /\ UNCHANGED <<cached, now, calls, last, clears, justCleared, burst>>
    /\ UNCHANGED rateVars
    /\ UNCHANGED upsVars

\* clearUpsTokenCache
ClearUpsTokenCache ==
    /\ clears < MaxClears
    /\ cached' = Null
    /\ clears' = clears + 1
    /\ justCleared' = TRUE
    /\ calls' = [c \in Callers |->
            IF c \in InFlight THEN [calls[c] EXCEPT !.clearedDuring = TRUE]
            ELSE calls[c]]
    /\ burst' = NoBurst
    /\ UNCHANGED <<now, last, fetchCount, fetches>>
    /\ UNCHANGED rateVars
    /\ UNCHANGED upsVars

\* time passes
Tick ==
    /\ now < MaxTicks * ClockStepSec * 1000
    /\ now' = now + ClockStepSec * 1000
    /\ UNCHANGED <<cached, calls, last, fetchCount, fetches, clears, justCleared, burst>>
    /\ UNCHANGED rateVars
    /\ UNCHANGED upsVars

\* the clients call with either config; nobody clears the cache
NextConfigs ==
    \/ \E c \in Callers, config \in Configs : GetUpsAccessTokenWith(c, config)
    \/ \E c \in Callers, resp \in Responses : GetUpsAccessTokenResume(c, resp)
    \/ Tick

NextAuth ==
    \/ \E c \in Callers : GetUpsAccessToken(c)
    \/ \E c \in Callers, resp \in Responses : GetUpsAccessTokenResume(c, resp)
    \/ ClearUpsTokenCache
    \/ Tick

-----------------------------------------------------------------------------
(* Rate service: data *)

\* Names an adapter can be registered under; "1" and "2" are integer-like
\* property names (array indices), which a JavaScript object lists first.
Names == {"ups", "fedex", "2", "1"}

ArrayIndex(name) ==
    CASE name = "1" -> 1
      [] name = "2" -> 2
      [] OTHER      -> -1

IsArrayIndex(name) == ArrayIndex(name) >= 0

Quotes == {"quoteA", "quoteB"}

Errors == {"errorA", "errorB"}

Pending == [status |-> "pending", value |-> "none"]

Fulfilled(v) == [status |-> "fulfilled", value |-> v]

Rejected(e) == [status |-> "rejected", value |-> e]

Outcomes == {Fulfilled(q) : q \in Quotes} \cup {Rejected(e) : e \in Errors}

\* An optional property is <<>> when absent and <<value>> when present.
Absent == <<>>

Some(v) == <<v>>

\* A string is the sequence of its characters.
Address(line1, state, country) ==
    [addressLine1 |-> line1, city |-> <<"c">>, state |-> state,
     postalCode |-> <<"9">>, country |-> country]

HomeAddress == Address(<<"1">>, <<"M", "D">>, <<"U", "S">>)

\* a package in pounds without dimensions
Package(weight) == [weight |-> weight, weightUnit |-> "LB", dimensions |-> Absent]

\* a package in kilograms and centimetres, and one in pounds and inches
MetricPackage ==
    [weight |-> 2, weightUnit |-> "KG",
     dimensions |-> Some([length |-> 10, width |-> 20, height |-> 30, unit |-> "CM"])]

InchPackage ==
    [weight |-> 10, weightUnit |-> "LB",
     dimensions |-> Some([length |-> 1, width |-> 2, height |-> 3, unit |-> "IN"])]

\* a request the schema accepts
ValidRequest ==
    [origin |-> HomeAddress, destination |-> HomeAddress,
     packages |-> <<Package(10)>>]

\* the requests a caller passes: the one above, one with two packages, and
\* one per constraint of the schema that it breaks
Requests ==
    {ValidRequest,
     [ValidRequest EXCEPT !.packages = <<Package(10), Package(3)>>],
     [ValidRequest EXCEPT !.origin.addressLine1 = <<>>],
     [ValidRequest EXCEPT !.packages = <<Package(-1)>>],
     [ValidRequest EXCEPT !.packages = <<Package(0)>>],
     [ValidRequest EXCEPT !.destination.country = <<"U", "S", "A">>],
     [ValidRequest EXCEPT !.origin.state = <<"M">>],
     [ValidRequest EXCEPT !.packages = <<>>]}

\* AddressInputSchema
AddressInputValid(a) ==
    /\ Len(a.addressLine1) >= 1
    /\ Len(a.city) >= 1
    /\ Len(a.state) >= 2 /\ Len(a.state) <= 2
    /\ Len(a.postalCode) >= 1
    /\ Len(a.country) = 2

\* the requests an adapter is called with: those above, and some whose first
\* package has units and dimensions, alone or beside other packages
AdapterRequests ==
    Requests \cup
    {[ValidRequest EXCEPT !.packages = <<MetricPackage>>],
     [ValidRequest EXCEPT !.packages = <<MetricPackage, Package(3)>>],
     [ValidRequest EXCEPT !.packages = <<Package(10), MetricPackage>>],
     [ValidRequest EXCEPT !.packages = <<InchPackage>>],
     [ValidRequest EXCEPT !.packages = <<InchPackage, MetricPackage, Package(3)>>]}

\* PackageInfoSchema: weight and dimensions are z.number().positive()
PackageInfoValid(p) ==
    /\ p.weight > 0
    /\ p.weightUnit \in {"LB", "KG"}
    /\ p.dimensions # Absent =>
           /\ p.dimensions[1].length > 0
           /\ p.dimensions[1].width > 0
           /\ p.dimensions[1].height > 0
           /\ p.dimensions[1].unit \in {"IN", "CM"}

\* RateRequestInputSchema
RateRequestInputValid(req) ==
    /\ AddressInputValid(req.origin)
    /\ AddressInputValid(req.destination)
    /\ Len(req.packages) >= 1 /\ Len(req.packages) <= 50
    /\ \A i \in DOMAIN req.packages : PackageInfoValid(req.packages[i])

\* Names a caller can ask getRatesFromProvider for: the names adapters are
\* registered under, a name nobody registers, and a property name that every
\* object literal inherits from Object.prototype.
LookupNames == Names \cup {"dhl", "constructor"}

ObjectPrototypeKeys == {"constructor"}

Undefined == [kind |-> "undefined", name |-> "none"]

Inherited(k) == [kind |-> "inherited", name |-> k]

AdapterOf(k) == [kind |-> "adapter", name |-> k]

\* (variant: the lookup answers with the first registered adapter)
PropertyGet_First(keys, k) ==
    IF Len(keys) > 0 THEN AdapterOf(keys[1]) ELSE Undefined

\* this.config.providers[providerName]: the own property of that name, else
\* the property the object inherits from Object.prototype, else undefined
PropertyGet(keys, k) ==
    IF \E i \in DOMAIN keys : keys[i] = k THEN AdapterOf(k)
    ELSE IF k \in ObjectPrototypeKeys THEN Inherited(k)
    ELSE Undefined

\* the error of `throw new Error(`Unknown rate provider: ...`)`
UnknownProviderError == "Unknown rate provider"

\* the TypeError of calling a property that is not a function
NotAFunctionError == "TypeError: provider.getRates is not a function"

\* the sequences of distinct names of length n
RECURSIVE DistinctSeqs(_, _)
DistinctSeqs(S, n) ==
    IF n = 0 THEN {<<>>}
    ELSE UNION {{Append(t, x) : x \in S \ {t[i] : i \in DOMAIN t}}
                    : t \in DistinctSeqs(S, n - 1)}

\* the names of S by ascending array index
RECURSIVE AscendingIndex(_)
AscendingIndex(S) ==
    IF S = {} THEN <<>>
    ELSE LET m == CHOOSE x \in S : \A y \in S : ArrayIndex(x) <= ArrayIndex(y)
         IN  <<m>> \o AscendingIndex(S \ {m})

\* Object.entries(providers), as the names: the own property keys of an
\* object are its integer-like keys in ascending numeric order, followed by
\* its other string keys in insertion order.
ObjectEntries(keys) ==
    AscendingIndex({keys[i] : i \in {j \in DOMAIN keys : IsArrayIndex(keys[j])}})
        \o SelectSeq(keys, LAMBDA k : ~IsArrayIndex(k))

\* (variant: one adapter at a time, each awaited before the next is invoked)
InvokedBeforeAwait_FirstOnly(ents) == {i \in DOMAIN ents : i = 1}

\* the entries whose provider.getRates has been called when getRates reaches
\* its await: entries.map runs every callback up to its own first await
\* before Promise.allSettled is called
InvokedBeforeAwait(ents) == DOMAIN ents

\* (variants: the call is made again; the adapter gets a request without its
\* last package)
InvokeAdapter_Retry(received, req) == Append(Append(received, req), req)

InvokeAdapter_Trimmed(received, req) ==
    Append(received,
           [req EXCEPT !.packages = SubSeq(req.packages, 1, Len(req.packages) - 1)])

\* provider.getRates(request): the adapter receives the caller's request
InvokeAdapter(received, req) == Append(received, req)

\* (variants: Promise.all, which is done at the first rejection; and a join
\* that is never done)
AllSettledReady_FailFast(ps) ==
    \/ \E i \in DOMAIN ps : ps[i].status = "rejected"
    \/ \A i \in DOMAIN ps : ps[i].status # "pending"

AllSettledReady_Never(ps) == FALSE

\* the promise of Promise.allSettled is fulfilled when every input promise
\* has settled
AllSettledReady(ps) == \A i \in DOMAIN ps : ps[i].status # "pending"

\* (variant: the results in the order in which the promises settled)
AllSettled_ByArrival(ps, order) == [i \in DOMAIN ps |-> ps[order[i]]]

\* what `await Promise.allSettled(...)` gives once every promise has settled:
\* one result per input promise, in the order of the input
AllSettled(ps, order) == ps

\* (variant: the errors field is always there)
BuildResult_AlwaysErrors(quotes, errors) ==
    [quotes |-> quotes, hasErrors |-> TRUE, errors |-> errors]

\* errors.length > 0 ? { quotes, errors } : { quotes }
BuildResult(quotes, errors) ==
    IF Len(errors) > 0
    THEN [quotes |-> quotes, hasErrors |-> TRUE, errors |-> errors]
    ELSE [quotes |-> quotes, hasErrors |-> FALSE, errors |-> <<>>]

\* (variant: an errors field that is there and empty)
EmptyResult_WithErrors == [quotes |-> <<>>, hasErrors |-> TRUE, errors |-> <<>>]

\* return { quotes: [] }
EmptyResult == [quotes |-> <<>>, hasErrors |-> FALSE, errors |-> <<>>]

\* quotes.push({ carrier: name, quote: result.value.quote })
QuoteEntry(name, value) == [carrier |-> name, quote |-> value]

\* (variant: the reason is replaced by an error of the service)
ErrorEntry_Wrapped(name, reason) == [carrier |-> name, error |-> "wrapped"]

\* errors.push({ carrier: name, error: result.reason })
ErrorEntry(name, reason) == [carrier |-> name, error |-> reason]

\* (variant: the loop ends at the first rejected result)
RECURSIVE Collect_UntilRejected(_, _, _, _, _)
Collect_UntilRejected(results, ents, i, quotes, errors) ==
    IF i > Len(results) \/ Len(errors) > 0 THEN BuildResult(quotes, errors)
    ELSE IF results[i].status = "fulfilled"
    THEN Collect_UntilRejected(results, ents, i + 1,
                               Append(quotes, QuoteEntry(ents[i], results[i].value)),
                               errors)
    ELSE Collect_UntilRejected(results, ents, i + 1, quotes,
                               Append(errors, ErrorEntry(ents[i], results[i].value)))

\* the loop over results, from index i on
RECURSIVE Collect(_, _, _, _, _)
Collect(results, ents, i, quotes, errors) ==
    IF i > Len(results) THEN BuildResult(quotes, errors)
    ELSE IF results[i].status = "fulfilled"
    THEN Collect(results, ents, i + 1,
                 Append(quotes, QuoteEntry(ents[i], results[i].value)),
                 errors)
    ELSE Collect(results, ents, i + 1, quotes,
                 Append(errors, ErrorEntry(ents[i], results[i].value)))

-----------------------------------------------------------------------------
(* Rate service: operations *)

\* a RateService constructed over any registration of up to MaxProviders names
InitRates ==
    /\ providers \in UNION {DistinctSeqs(Names, n) : n \in 0..MaxProviders}
    /\ rsPc = "idle"
    /\ entries = <<>>
    /\ promises = <<>>
    /\ arrival = <<>>
    /\ produced = [n \in Names |-> Pending]
    /\ result = <<>>
    /\ request \in AdapterRequests
    /\ invocations = [n \in Names |-> <<>>]
    /\ asked = "none"

\* RateService.getRates up to its await: with no entries it returns at once;
\* otherwise entries.map invokes every provider.getRates in turn.  An adapter
\* either hands back a pending promise or throws at once, which rejects the
\* promise of its async callback.
\* thrown[i] is what the call of entry i's getRates rejects with at once,
\* "none" when it hands back a pending promise.
RateService_getRatesSync(thrown) ==
    /\ rsPc = "idle"
    /\ LET ents == ObjectEntries(providers)
       IN  /\ entries' = ents
           /\ IF Len(ents) = 0
              THEN /\ result' = <<EmptyResult>>
                   /\ rsPc' = "done"
                   /\ UNCHANGED <<promises, arrival, produced, invocations>>
              ELSE /\ promises' = [i \in DOMAIN ents |->
                          IF thrown[i] = "none" THEN Pending ELSE Rejected(thrown[i])]
                   /\ arrival' = SelectSeq([i \in DOMAIN ents |-> i],
                                           LAMBDA i : thrown[i] # "none")
                   /\ produced' = [n \in Names |->
                          IF \E i \in DOMAIN ents : ents[i] = n /\ thrown[i] # "none"
                          THEN Rejected(thrown[CHOOSE i \in DOMAIN ents : ents[i] = n])
                          ELSE produced[n]]
                   /\ invocations' = [n \in Names |->
                          IF \E i \in InvokedBeforeAwait(ents) : ents[i] = n
                          THEN InvokeAdapter(invocations[n], request)
                          ELSE invocations[n]]
                   /\ rsPc' = "awaiting"
                   /\ UNCHANGED result
    /\ UNCHANGED <<providers, request, asked>>

\* ... over adapters that answer in any way
RateService_getRates ==
    /\ rsPc = "idle"
    /\ \E thrown \in [DOMAIN ObjectEntries(providers) -> {"none"} \cup Errors] :
           RateService_getRatesSync(thrown)
    /\ UNCHANGED authVars
    /\ UNCHANGED upsVars

\* the promise of entry i, whose adapter was invoked, settles
PromiseSettle(i, outcome) ==
    /\ rsPc \in {"awaiting", "one_awaiting"}
    /\ i \in DOMAIN promises
    /\ promises[i].status = "pending"
    /\ invocations[entries[i]] # <<>>
    /\ promises' = [promises EXCEPT ![i] = outcome]
    /\ arrival' = Append(arrival, i)
    /\ produced' = [produced EXCEPT ![entries[i]] = outcome]
    /\ UNCHANGED <<providers, rsPc, entries, result, request, invocations, asked>>

\* the getRates promise of an adapter settles, in any way
Adapter_settle(i, outcome) ==
    /\ PromiseSettle(i, outcome)
    /\ UNCHANGED authVars
    /\ UNCHANGED upsVars

\* RateService.getRates after `await Promise.allSettled(...)`: every promise
\* has settled; the loop sorts the results into quotes and errors.
RateService_getRates_resume ==
    /\ rsPc = "awaiting"
    /\ AllSettledReady(promises)
    /\ LET results == AllSettled(promises, arrival)
       IN  result' = <<Collect(results, entries, 1, <<>>, <<>>)>>
    /\ rsPc' = "done"
    /\ UNCHANGED <<providers, entries, promises, arrival, produced, request,
                   invocations, asked>>
    /\ UNCHANGED authVars
    /\ UNCHANGED upsVars

\* RateService.getRatesFromProvider up to its return: look the name up, throw
\* when the value is falsy, else call getRates on it and hand its promise
\* back.  Calling getRates on a value that has no such method throws a
\* TypeError; whatever is thrown rejects the promise of the async method.
RateService_getRatesFromProvider(providerName) ==
    /\ rsPc = "idle"
    /\ asked' = providerName
    /\ LET provider == PropertyGet(providers, providerName)
       IN  CASE provider.kind = "undefined" ->
                  /\ result' = <<Rejected(UnknownProviderError)>>
                  /\ rsPc' = "one_done"
                  /\ UNCHANGED <<entries, promises, arrival, produced, invocations>>
             [] provider.kind = "inherited" ->
                  /\ result' = <<Rejected(NotAFunctionError)>>
                  /\ rsPc' = "one_done"
                  /\ UNCHANGED <<entries, promises, arrival, produced, invocations>>
             [] provider.kind = "adapter" ->
                  \E thrown \in {"none"} \cup Errors :
                  /\ entries' = <<provider.name>>
                  /\ invocations' = [invocations EXCEPT ![provider.name] =
                                         InvokeAdapter(@, request)]
                  /\ promises' = <<IF thrown = "none" THEN Pending
                                   ELSE Rejected(thrown)>>
                  /\ arrival' = IF thrown = "none" THEN <<>> ELSE <<1>>
                  /\ produced' = IF thrown = "none" THEN produced
                                 ELSE [produced EXCEPT ![provider.name] =
                                          Rejected(thrown)]
                  /\ rsPc' = "one_awaiting"
                  /\ UNCHANGED result
    /\ UNCHANGED <<providers, request>>
    /\ UNCHANGED authVars
    /\ UNCHANGED upsVars

\* the promise getRatesFromProvider returned settles as the adapter's promise
RateService_getRatesFromProvider_resume ==
    /\ rsPc = "one_awaiting"
    /\ promises[1].status # "pending"
    /\ result' = <<promises[1]>>
    /\ rsPc' = "one_done"
    /\ UNCHANGED <<providers, entries, promises, arrival, produced, request,
                   invocations, asked>>
    /\ UNCHANGED authVars
    /\ UNCHANGED upsVars

NextRates ==
    \/ RateService_getRates
    \/ \E i \in 1..MaxProviders, outcome \in Outcomes : Adapter_settle(i, outcome)
    \/ RateService_getRates_resume
    \/ \E providerName \in LookupNames : RateService_getRatesFromProvider(providerName)
    \/ RateService_getRatesFromProvider_resume

-----------------------------------------------------------------------------
(* HTTP client: FetchClient *)

\* The text of a response body: its length, and the document it spells when
\* it is JSON.  JSON.parse gives that document, or throws.
EmptyText == [length |-> 0, json |-> Absent]

InvalidText == [length |-> 6, json |-> Absent]

JsonText(doc) == [length |-> 2, json |-> Some(doc)]

\* res.ok
ResponseOk(status) == status >= 200 /\ status <= 299

\* res.statusText
StatusText(status) ==
    CASE status = 200 -> "OK"
      [] status = 201 -> "Created"
      [] status = 204 -> "No Content"
      [] status = 301 -> "Moved Permanently"
      [] status = 400 -> "Bad Request"
      [] status = 401 -> "Unauthorized"
      [] status = 404 -> "Not Found"
      [] OTHER        -> "Internal Server Error"

Statuses == {200, 201, 204, 301, 400, 401, 404, 500}

\* What `fetch` and `res.text()` give FetchClient.request: "rejected" - fetch
\* rejects, there is no response; "unreadable" - a response arrives and
\* reading its body rejects; "response" - the status line and the body text.
NetworkFailure == [kind |-> "rejected", status |-> 0, text |-> EmptyText]

UnreadableBody(status) == [kind |-> "unreadable", status |-> status, text |-> EmptyText]

HttpResponse(status, text) == [kind |-> "response", status |-> status, text |-> text]

\* new FetchError(message, res.status, res.statusText, text)
FetchError(message, res) ==
    [name |-> "FetchError", message |-> message, status |-> Some(res.status),
     statusText |-> Some(StatusText(res.status)), body |-> Some(res.text)]

\* what `fetch` or `res.text()` rejects with: an error of the runtime, with
\* no status and no body
NetworkError ==
    [name |-> "TypeError", message |-> "fetch failed", status |-> Absent,
     statusText |-> Absent, body |-> Absent]

\* how a promise of FetchClient.request settles: with data, or with an error
HttpFulfilled(data) == [status |-> "fulfilled", data |-> Some(data), error |-> Absent]

HttpRejected(err) == [status |-> "rejected", data |-> Absent, error |-> Some(err)]

\* `undefined as T`, and the JSON documents: null and objects.  An object has
\* the optional property RateResponse.
NoContent == [type |-> "undefined", RateResponse |-> Absent]

JsonNull == [type |-> "null", RateResponse |-> Absent]

JsonObject(rateResponse) == [type |-> "object", RateResponse |-> rateResponse]

\* (variant: a network failure is wrapped like a failed response)
FetchClientRequest_WrapNetwork(res) ==
    CASE res.kind # "response" -> HttpRejected(FetchError("Request failed", res))
      [] ~ResponseOk(res.status) -> HttpRejected(FetchError("Request failed", res))
      [] res.text.length = 0 -> HttpFulfilled(NoContent)
      [] res.text.json = Absent ->
             HttpRejected(FetchError("Invalid JSON response", res))
      [] OTHER -> HttpFulfilled(res.text.json[1])

\* (variant: the body is parsed before it is tested for emptiness)
FetchClientRequest_ParseFirst(res) ==
    CASE res.kind # "response" -> HttpRejected(NetworkError)
      [] ~ResponseOk(res.status) -> HttpRejected(FetchError("Request failed", res))
      [] res.text.json = Absent ->
             HttpRejected(FetchError("Invalid JSON response", res))
      [] OTHER -> HttpFulfilled(res.text.json[1])

\* FetchClient.request from `await fetch(url, init)` on: the state its
\* promise settles in
FetchClientRequest(res) ==
    CASE res.kind # "response" -> HttpRejected(NetworkError)
      [] ~ResponseOk(res.status) -> HttpRejected(FetchError("Request failed", res))
      [] res.text.length = 0 -> HttpFulfilled(NoContent)
      [] res.text.json = Absent ->
             HttpRejected(FetchError("Invalid JSON response", res))
      [] OTHER -> HttpFulfilled(res.text.json[1])

NoHttp ==
    [pc |-> "idle", response |-> NetworkFailure,
     outcome |-> [status |-> "pending", data |-> Absent, error |-> Absent]]

-----------------------------------------------------------------------------
(* UPS mapper: mapUpsRateResponseToQuote *)

\* A JavaScript number: a finite amount counted in cents, NaN or Infinity.
Finite(cents) == [kind |-> "finite", cents |-> cents]

NaN == [kind |-> "NaN", cents |-> 0]

Infinity == [kind |-> "Infinity", cents |-> 0]

\* the strings a MonetaryValue is given as
MonetaryTexts == {"", "10.88", "11.63", "1.09", "abc", "12abc", "Infinity"}

\* Number.parseFloat: the number spelled by the longest prefix that is a
\* decimal literal; NaN when there is none
ParseFloat(text) ==
    CASE text = "10.88"    -> Finite(1088)
      [] text = "11.63"    -> Finite(1163)
      [] text = "1.09"     -> Finite(109)
      [] text = "12abc"    -> Finite(1200)
      [] text = "Infinity" -> Infinity
      [] OTHER             -> NaN

\* UpsCharges
Charges(currencyCode, monetaryValue) ==
    [CurrencyCode |-> currencyCode, MonetaryValue |-> monetaryValue]

\* (variant: the parsed number is returned whether finite or not)
parseAmount_Unchecked(charges) ==
    IF \/ charges = Absent
       \/ charges[1].MonetaryValue = Absent
       \/ charges[1].MonetaryValue[1] = ""
    THEN Finite(0)
    ELSE ParseFloat(charges[1].MonetaryValue[1])

\* parseAmount(charges)
parseAmount(charges) ==
    IF \/ charges = Absent
       \/ charges[1].MonetaryValue = Absent
       \/ charges[1].MonetaryValue[1] = ""
    THEN Finite(0)
    ELSE LET n == ParseFloat(charges[1].MonetaryValue[1])
         IN  IF n.kind = "finite" THEN n ELSE Finite(0)

\* RateResponse.RatedShipment: one object, or an array of them
OneShipment(shipment) == [isArray |-> FALSE, items |-> <<shipment>>]

ShipmentArray(shipments) == [isArray |-> TRUE, items |-> shipments]

\* (variant: the last rated shipment comes first)
getRatedShipments_Last(res) ==
    LET rated == IF res.RateResponse = Absent THEN Absent
                 ELSE res.RateResponse[1].RatedShipment
    IN  IF rated = Absent THEN <<>>
        ELSE IF Len(rated[1].items) = 0 THEN <<>>
        ELSE <<rated[1].items[Len(rated[1].items)]>>

\* getRatedShipments(res)
getRatedShipments(res) ==
    LET rated == IF res.RateResponse = Absent THEN Absent
                 ELSE res.RateResponse[1].RatedShipment
    IN  IF rated = Absent THEN <<>>
        ELSE IF rated[1].isArray THEN rated[1].items
        ELSE <<rated[1].items[1]>>

\* String.prototype.toLowerCase, on the letters that occur
ToLowerCase(str) ==
    [i \in DOMAIN str |->
        CASE str[i] = "F" -> "f"
          [] str[i] = "U" -> "u"
          [] str[i] = "E" -> "e"
          [] str[i] = "L" -> "l"
          [] str[i] = "T" -> "t"
          [] OTHER        -> str[i]]

\* String.prototype.includes
Includes(str, sub) ==
    \E i \in 0..(Len(str) - Len(sub)) : SubSeq(str, i + 1, i + Len(sub)) = sub

\* c.Code === "FS" || c.Description?.toLowerCase().includes("fuel")
IsFuelCharge(c) ==
    \/ c.Code = Some("FS")
    \/ /\ c.Description # Absent
       /\ Includes(ToLowerCase(c.Description[1]), <<"f", "u", "e", "l">>)

\* itemized.find(...): <<>> (undefined) or <<the first fuel charge>>
FindFuelItem(itemized) ==
    IF \E i \in DOMAIN itemized : IsFuelCharge(itemized[i])
    THEN LET k == CHOOSE i \in DOMAIN itemized :
                      /\ IsFuelCharge(itemized[i])
                      /\ \A j \in 1..(i - 1) : ~IsFuelCharge(itemized[j])
         IN  Some(itemized[k])
    ELSE Absent

\* how a call of the mapper completes: it returns a quote, or throws
Returned(quote) == [threw |-> FALSE, quote |-> Some(quote)]

Threw == [threw |-> TRUE, quote |-> Absent]

\* the quote of a response without rated shipment
SentinelQuote ==
    [serviceCode |-> "ups", serviceName |-> "UPS", totalPrice |-> Finite(0),
     currency |-> "USD", breakdown |-> Absent]

\* (variant: the standard total is the price although a negotiated one is there)
TotalChargesOf_Standard(first) == first.TotalCharges

\* first.NegotiatedRateCharges?.TotalCharge ?? first.TotalCharges
TotalChargesOf(first) ==
    IF first.NegotiatedRateCharges # Absent
       /\ first.NegotiatedRateCharges[1].TotalCharge # Absent
    THEN first.NegotiatedRateCharges[1].TotalCharge
    ELSE first.TotalCharges

\* the quote of the rated shipment `first`
QuoteOf(first) ==
    LET totalCharges == TotalChargesOf(first)
        negotiated == first.NegotiatedRateCharges
        itemized == IF negotiated # Absent /\ negotiated[1].ItemizedCharges # Absent
                    THEN negotiated[1].ItemizedCharges[1] ELSE <<>>
        fuelItem == FindFuelItem(itemized)
        negotiatedTotal == IF negotiated = Absent THEN Absent
                           ELSE negotiated[1].TotalCharge
    IN  [serviceCode |-> IF first.Service # Absent /\ first.Service[1].Code # Absent
                         THEN first.Service[1].Code[1] ELSE "ups",
         serviceName |-> IF first.Service # Absent
                            /\ first.Service[1].Description # Absent
                         THEN first.Service[1].Description[1] ELSE "UPS",
         totalPrice |-> parseAmount(totalCharges),
         currency |-> IF totalCharges # Absent /\ totalCharges[1].CurrencyCode # Absent
                      THEN totalCharges[1].CurrencyCode[1] ELSE "USD",
         breakdown |->
             IF Len(itemized) > 0 \/ first.TotalCharges # Absent
             THEN Some([basePrice |-> parseAmount(first.TotalCharges),
                        fuelSurcharge |->
                            IF fuelItem # Absent
                            THEN Some(parseAmount(Some(Charges(Absent,
                                          fuelItem[1].MonetaryValue))))
                            ELSE Absent,
                        other |-> IF negotiatedTotal # Absent
                                  THEN Some(parseAmount(negotiatedTotal))
                                  ELSE Absent])
             ELSE Absent]

\* (variant: a response without rated shipment is an error)
mapUpsRateResponseToQuote_Strict(res) ==
    IF res.type # "object" THEN Threw
    ELSE LET shipments == getRatedShipments(res)
         IN  IF Len(shipments) = 0 THEN Threw
             ELSE Returned(QuoteOf(shipments[1]))

\* mapUpsRateResponseToQuote(res): reading a property of undefined or null
\* throws a TypeError
mapUpsRateResponseToQuote(res) ==
    IF res.type # "object" THEN Threw
    ELSE LET shipments == getRatedShipments(res)
         IN  IF Len(shipments) = 0 THEN Returned(SentinelQuote)
             ELSE Returned(QuoteOf(shipments[1]))

\* the sequences over S of at most n entries
SeqsUpTo(S, n) == UNION {[1..k -> S] : k \in 0..n}

\* Itemized charges: the fuel surcharge by its code; one recognised by its
\* description in capitals, with an amount followed by letters; a tax; and
\* one with "fuel" inside a longer description and no amount.
ItemizedCharge(code, description, monetaryValue) ==
    [Code |-> code, Description |-> description, MonetaryValue |-> monetaryValue]

Items ==
    {ItemizedCharge(Some("FS"), Absent, Some("1.09")),
     ItemizedCharge(Some("XX"), Some(<<"F", "U", "E", "L">>), Some("12abc")),
     ItemizedCharge(Absent, Some(<<"T", "a", "x">>), Some("10.88")),
     ItemizedCharge(Some("fs"), Some(<<"x", "F", "u", "e", "l", "x">>), Absent)}

StandardTotals ==
    {Absent} \cup
    {Some(Charges(c, v)) :
        c \in {Absent, Some("EUR")},
        v \in {Absent} \cup {Some(t) : t \in MonetaryTexts}}

NegotiatedTotals ==
    {Absent,
     Some(Charges(Some("USD"), Some("10.88"))),
     Some(Charges(Absent, Some("Infinity"))),
     Some(Charges(Some("EUR"), Some("")))}

NegotiatedRateCharges ==
    {Absent} \cup
    {Some([TotalCharge |-> t, ItemizedCharges |-> l]) :
        t \in NegotiatedTotals,
        l \in {Absent} \cup {Some(x) : x \in SeqsUpTo(Items, MaxItemized)}}

Services ==
    {Absent,
     Some([Code |-> Some("03"), Description |-> Some("Ground")]),
     Some([Code |-> Absent, Description |-> Absent])}

\* UpsRatedShipment
RatedShipment(service, totalCharges, negotiated) ==
    [Service |-> service, TotalCharges |-> totalCharges,
     NegotiatedRateCharges |-> negotiated]

Shipments ==
    {RatedShipment(s, t, n) :
        s \in Services, t \in StandardTotals, n \in NegotiatedRateCharges}

\* a shipment with a negotiated total of 10.88, a standard total of 11.63
\* and a fuel surcharge of 1.09
GroundShipment ==
    RatedShipment(Some([Code |-> Some("03"), Description |-> Some("Ground")]),
                  Some(Charges(Some("USD"), Some("11.63"))),
                  Some([TotalCharge |-> Some(Charges(Some("USD"), Some("10.88"))),
                        ItemizedCharges |->
                            Some(<<ItemizedCharge(Some("FS"), Absent, Some("1.09"))>>)]))

\* the shipments of a response with several: the one above, a cheaper and a
\* dearer service
ListedShipments ==
    {GroundShipment,
     RatedShipment(Some([Code |-> Some("01"), Description |-> Some("Next Day")]),
                   Some(Charges(Some("USD"), Some("1.09"))), Absent),
     RatedShipment(Some([Code |-> Some("02"), Description |-> Some("2nd Day")]),
                   Some(Charges(Some("EUR"), Some("12abc"))), Absent)}

RateResponseOf(rated) == JsonObject(Some([RatedShipment |-> rated]))

\* the documents a rate endpoint answers with
RateResponses ==
    {JsonNull, JsonObject(Absent), RateResponseOf(Absent)}
    \cup {RateResponseOf(Some(OneShipment(s))) : s \in Shipments}
    \cup {RateResponseOf(Some(ShipmentArray(l))) :
            l \in SeqsUpTo(ListedShipments, MaxShipments)}

NoMapped ==
    [pc |-> "idle", input |-> NoContent,
     output |-> [threw |-> FALSE, quote |-> Absent]]

-----------------------------------------------------------------------------
(* UPS carrier: the adapter registered under "ups" *)

UpsName == "ups"

\* (variant: another message)
NoPackageError_Generic == "Invalid request"

\* throw new Error("At least one package is required")
NoPackageError == "At least one package is required"

\* No invocation of UpsCarrier.getRates; calls counts the invocations so far.
NoUps ==
    [pc |-> "idle", slot |-> 0, tokenRequests |-> 0, posts |-> <<>>,
     outcome |-> Pending, calls |-> 0]

\* (variant: another authorization scheme)
BearerHeader_Basic(token) == <<"Basic", token>>

\* getUpsAuthorizationHeader: `Bearer ${token}`
BearerHeader(token) == <<"Bearer", token>>

\* a number with decimals: num / den
Ratio(num, den) == [num |-> num, den |-> den]

\* String(x): the text of a number
String(x) == [text |-> x]

\* (variant: the package rated is the last one)
RatedPackage_Last(packages) == packages[Len(packages)]

\* const pkg = packages[0]
RatedPackage(packages) == packages[1]

\* pkg.weightUnit === "KG" ? pkg.weight * 2.20462 : pkg.weight
WeightLbs(pkg) ==
    IF pkg.weightUnit = "KG" THEN Ratio(pkg.weight * 220462, 100000)
    ELSE Ratio(pkg.weight, 1)

\* pkg.dimensions?.unit === "CM" ? side / 2.54 : side, for the side given,
\* and then options.lengthIn ?? 5
InchesOrFive(dimensions, side) ==
    IF dimensions = Absent THEN Ratio(5, 1)
    ELSE IF dimensions[1].unit = "CM" THEN Ratio(side * 100, 254)
    ELSE Ratio(side, 1)

\* toAddress(a), for the UpsAddressInput made of a request address
ToAddress(a) ==
    [AddressLine |-> <<a.addressLine1>>, City |-> a.city,
     StateProvinceCode |-> a.state, PostalCode |-> a.postalCode,
     CountryCode |-> a.country]

\* the body UpsCarrier.getRates builds with buildUpsRateRequestBody
UpsRateRequestBody(req) ==
    LET pkg == RatedPackage(req.packages)
        dims == pkg.dimensions
    IN  [ShipFrom |-> ToAddress(req.origin),
         ShipTo |-> ToAddress(req.destination),
         NumOfPieces |-> "1",
         Package |->
             [Dimensions |->
                  [UnitOfMeasurement |-> "IN",
                   Length |-> String(InchesOrFive(dims,
                                  IF dims = Absent THEN 0 ELSE dims[1].length)),
                   Width |-> String(InchesOrFive(dims,
                                  IF dims = Absent THEN 0 ELSE dims[1].width)),
                   Height |-> String(InchesOrFive(dims,
                                  IF dims = Absent THEN 0 ELSE dims[1].height))],
              PackageWeight |->
                  [UnitOfMeasurement |-> "LBS",
                   Weight |-> String(WeightLbs(pkg))]]]

\* the rate request UpsCarrier.getRates posts: its Authorization header and
\* its body
RatePost(authHeader, req) ==
    [authorization |-> authHeader, body |-> UpsRateRequestBody(req)]

\* what the rate endpoint answers where the response is not what matters: a
\* quote, an empty body, a failure status, a body that is not JSON, no answer
CoreHttpResponses ==
    {HttpResponse(200, JsonText(RateResponseOf(Some(OneShipment(GroundShipment))))),
     HttpResponse(200, EmptyText),
     HttpResponse(500, InvalidText),
     HttpResponse(200, InvalidText),
     NetworkFailure}

\* what the rate endpoint answers to UpsCarrier: the above, and responses
\* without rated shipment or with several
AdapterResponses ==
    CoreHttpResponses \cup
    {HttpResponse(200, JsonText(doc)) :
        doc \in {JsonNull, JsonObject(Absent), RateResponseOf(Absent),
                 RateResponseOf(Some(ShipmentArray(<<>>)))}
                \cup {RateResponseOf(Some(ShipmentArray(<<s, GroundShipment>>))) :
                        s \in ListedShipments}}

\* what the rate endpoint answers to a client of FetchClient
ClientResponses ==
    {NetworkFailure}
    \cup {UnreadableBody(st) : st \in Statuses}
    \cup {HttpResponse(st, text) :
            st \in Statuses,
            text \in {EmptyText, InvalidText}
                     \cup {JsonText(doc) :
                             doc \in {JsonNull, JsonObject(Absent), RateResponseOf(Absent)}
                                     \cup {RateResponseOf(Some(ShipmentArray(l))) :
                                             l \in SeqsUpTo(ListedShipments, MaxShipments)}}}

\* the error of a rejected FetchClient.request, as the rate service lists it
ErrorText(err) ==
    CASE err.name = "FetchError" /\ err.message = "Request failed" ->
             "FetchError: Request failed"
      [] err.name = "FetchError" -> "FetchError: Invalid JSON response"
      [] OTHER -> "fetch rejected"

\* UpsCarrier.getRates from `await this.client.post(...)` on: the state its
\* promise settles in
UpsCarrierOutcome(res) ==
    LET data == FetchClientRequest(res)
    IN  IF data.status = "rejected" THEN Rejected(ErrorText(data.error[1]))
        ELSE IF mapUpsRateResponseToQuote(data.data[1]).threw
        THEN Rejected("TypeError: cannot read properties of undefined")
        ELSE Fulfilled("upsQuote")

\* the entry of the UPS adapter
UpsIndex == CHOOSE i \in DOMAIN entries : entries[i] = UpsName

InitUps == ups = NoUps /\ http = NoHttp /\ mapped = NoMapped

\* UpsCarrier.getRates up to the first await that waits for the network:
\* without a first package it throws; else it builds the body and calls
\* getUpsAuthorizationHeader, hence getUpsAccessToken.  With a cached token it
\* goes on to post the rate request; else the token request is under way.
UpsCarrier_getRatesSync ==
    /\ ups.pc = "idle"
    /\ IF request.packages = <<>>
       THEN /\ ups' = [ups EXCEPT !.pc = "failed", !.calls = @ + 1,
                                  !.outcome = Rejected(NoPackageError)]
            /\ UNCHANGED authVars
       ELSE \E c \in Callers :
            /\ GetUpsAccessTokenSync(c)
            /\ ups' = IF IsFresh(cached, now)
                      THEN [ups EXCEPT
                               !.pc = "posting", !.calls = @ + 1,
                               !.posts = Append(@, RatePost(BearerHeader(last'.token),
                                                            request))]
                      ELSE [ups EXCEPT
                               !.pc = "auth", !.calls = @ + 1,
                               !.slot = c,
                               !.tokenRequests = @ + (fetchCount' - fetchCount)]
    /\ UNCHANGED <<http, mapped>>

\* RateService.getRates up to its await, with UpsCarrier registered: the call
\* of its getRates inside entries.map runs UpsCarrier.getRates up to its await
RateService_getRates_UpsCarrier ==
    /\ rsPc = "idle"
    /\ \E i \in DOMAIN providers : providers[i] = UpsName
    /\ LET ents == ObjectEntries(providers)
           u == CHOOSE i \in DOMAIN ents : ents[i] = UpsName
       IN  \E thrown \in [DOMAIN ents -> {"none", NoPackageError} \cup Errors] :
           /\ thrown[u] = IF request.packages = <<>> THEN NoPackageError ELSE "none"
           /\ \A i \in DOMAIN ents : i # u => thrown[i] # NoPackageError
           /\ RateService_getRatesSync(thrown)
    /\ UpsCarrier_getRatesSync

\* UpsCarrier.getRates after `await getUpsAuthorizationHeader(auth)`: the
\* token request is answered; getUpsAccessToken stores and returns the token
\* and the rate request is posted with it, or it throws and so does getRates.
UpsCarrier_afterToken(resp) ==
    /\ ups.pc = "auth"
    /\ GetUpsAccessTokenAwaited(ups.slot, resp)
    /\ ups' = IF fetchError(resp) # "none"
              THEN [ups EXCEPT !.pc = "failed", !.slot = 0,
                               !.outcome = Rejected(fetchError(resp))]
              ELSE [ups EXCEPT
                       !.pc = "posting", !.slot = 0,
                       !.posts = Append(@, RatePost(BearerHeader(last'.token),
                                                    request))]
    /\ UNCHANGED <<http, mapped>>

\* ... with the adapter called by RateService.getRates
UpsCarrier_getRates_token(resp) ==
    /\ UpsCarrier_afterToken(resp)
    /\ IF fetchError(resp) # "none"
       THEN PromiseSettle(UpsIndex, Rejected(fetchError(resp)))
       ELSE UNCHANGED rateVars

\* UpsCarrier.getRates after `await this.client.post(...)`: the rate request
\* is answered, FetchClient.request settles, the data is mapped to a quote
\* and getRates settles
UpsCarrier_afterPost(res) ==
    /\ ups.pc = "posting"
    /\ ups' = [ups EXCEPT
                  !.pc = IF UpsCarrierOutcome(res).status = "fulfilled"
                         THEN "done" ELSE "failed",
                  !.outcome = UpsCarrierOutcome(res)]
    /\ http' = [pc |-> "done", response |-> res, outcome |-> FetchClientRequest(res)]
    /\ mapped' = IF FetchClientRequest(res).status = "fulfilled"
                 THEN [pc |-> "done", input |-> FetchClientRequest(res).data[1],
                       output |-> mapUpsRateResponseToQuote(
                                      FetchClientRequest(res).data[1])]
                 ELSE mapped
    /\ UNCHANGED authVars

\* ... with the adapter called by RateService.getRates
UpsCarrier_getRates_response(res) ==
    /\ UpsCarrier_afterPost(res)
    /\ PromiseSettle(UpsIndex, UpsCarrierOutcome(res))

\* UpsCarrier.getRates called by itself, and its two continuations
UpsCarrier_getRates ==
    /\ rsPc = "idle"
    /\ UpsCarrier_getRatesSync
    /\ UNCHANGED rateVars

UpsCarrier_getRates_afterToken(resp) ==
    /\ rsPc = "idle"
    /\ UpsCarrier_afterToken(resp)
    /\ UNCHANGED rateVars

UpsCarrier_getRates_afterPost(res) ==
    /\ rsPc = "idle"
    /\ UpsCarrier_afterPost(res)
    /\ UNCHANGED rateVars

NextUps ==
    \/ UpsCarrier_getRates
    \/ \E resp \in Responses : UpsCarrier_getRates_afterToken(resp)
    \/ \E res \in AdapterResponses : UpsCarrier_getRates_afterPost(res)

\* FetchClient.request called by itself
FetchClient_request(res) ==
    /\ http.pc = "idle"
    /\ http' = [pc |-> "done", response |-> res, outcome |-> FetchClientRequest(res)]
    /\ UNCHANGED <<ups, mapped>>
    /\ UNCHANGED authVars
    /\ UNCHANGED rateVars

\* mapUpsRateResponseToQuote called by itself
MapUpsRateResponseToQuote_call(res) ==
    /\ mapped.pc = "idle"
    /\ mapped' = [pc |-> "done", input |-> res,
                  output |-> mapUpsRateResponseToQuote(res)]
    /\ UNCHANGED <<ups, http>>
    /\ UNCHANGED authVars
    /\ UNCHANGED rateVars

\* the promise of an adapter other than UpsCarrier settles
OtherAdapter_settle(i, outcome) ==
    /\ i \in DOMAIN entries
    /\ entries[i] # UpsName
    /\ Adapter_settle(i, outcome)

\* the caller, having the result of getRates, gets ready to call it again
\* on the same service with the same request
RateService_nextCall ==
    /\ rsPc = "done"
    /\ ups.calls < MaxUpsCalls
    /\ rsPc' = "idle"
    /\ entries' = <<>>
    /\ promises' = <<>>
    /\ arrival' = <<>>
    /\ produced' = [n \in Names |-> Pending]
    /\ result' = <<>>
    /\ invocations' = [n \in Names |-> <<>>]
    /\ ups' = [NoUps EXCEPT !.calls = ups.calls]
    /\ http' = NoHttp
    /\ mapped' = NoMapped
    /\ UNCHANGED <<providers, request, asked>>
    /\ UNCHANGED authVars

NextCore ==
    \/ RateService_getRates_UpsCarrier
    \/ \E i \in 1..MaxProviders, outcome \in Outcomes : OtherAdapter_settle(i, outcome)
    \/ \E resp \in Responses : UpsCarrier_getRates_token(resp)
    \/ \E res \in CoreHttpResponses : UpsCarrier_getRates_response(res)
    \/ RateService_getRates_resume
    \/ RateService_nextCall

-----------------------------------------------------------------------------
(* Specifications *)

\* the token cache alone
Init == InitAuth /\ InitRates /\ InitUps /\ providers = <<>> /\ request = ValidRequest

Next == NextAuth

Spec == Init /\ [][Next]_vars

\* the token cache with clients of two configs
SpecConfigs == Init /\ [][NextConfigs]_vars

\* one client of the token module, its calls one after the other, beside one
\* client that calls the rate service with one adapter that is not
\* UpsCarrier, then FetchClient, then the mapper
InitFrame ==
    /\ InitAuth /\ InitRates /\ InitUps
    /\ providers = <<"fedex">>
    /\ request = ValidRequest

\* what the token endpoint answers there: a token with or without a lifetime,
\* or an error status
FrameResponses ==
    {r \in Responses : r.kind \in {"ok", "http_error"} /\ r.expires_in # <<400>>}

NextFrame ==
    \/ \E c \in Callers : InFlight = {} /\ GetUpsAccessToken(c)
    \/ \E c \in Callers, resp \in FrameResponses : GetUpsAccessTokenResume(c, resp)
    \/ \E config \in Configs, resp \in FrameResponses : FetchUpsAccessToken(config, resp)
    \/ ClearUpsTokenCache
    \/ RateService_getRates
    \/ \E i \in 1..MaxProviders, outcome \in Outcomes : Adapter_settle(i, outcome)
    \/ RateService_getRates_resume
    \/ \E res \in CoreHttpResponses : rsPc = "done" /\ FetchClient_request(res)
    \/ \E res \in {NoContent, RateResponseOf(Some(OneShipment(GroundShipment)))} :
           http.pc = "done" /\ MapUpsRateResponseToQuote_call(res)

SpecFrame == InitFrame /\ [][NextFrame]_vars

\* the rate service alone
InitRS == InitAuth /\ InitRates /\ InitUps /\ request = ValidRequest

NextRS == NextRates

SpecRates == InitRS /\ [][NextRS]_vars

\* the rate service over adapters that fail only by throwing out of getRates:
\* the promise an adapter hands back is always fulfilled
NextThrow ==
    \/ RateService_getRates
    \/ \E i \in 1..MaxProviders, quote \in Quotes : Adapter_settle(i, Fulfilled(quote))
    \/ RateService_getRates_resume

SpecThrow == InitRS /\ [][NextThrow]_vars

\* the rate service with every request, valid or not, over few adapters
InitRQ ==
    /\ InitAuth /\ InitRates /\ InitUps
    /\ Len(providers) <= MaxDispatch
    /\ request \in Requests

NextRQ == NextRates

SpecRequests == InitRQ /\ [][NextRQ]_vars

\* the rate service with UpsCarrier registered under "ups" beside other
\* adapters, called over and over; UpsCarrier is the one client of the token
\* cache, which nobody clears, and the calls follow each other within one
\* step of the clock.  The requests are those that differ for UpsCarrier.
InitCore ==
    /\ InitAuth /\ InitRates /\ InitUps
    /\ Len(providers) <= MaxDispatch
    /\ \E i \in DOMAIN providers : providers[i] = UpsName
    /\ request \in Requests
    /\ RateRequestInputValid(request) \/ request.packages = <<>>

SpecCore == InitCore /\ [][NextCore]_vars

\* UpsCarrier called by itself, once, with every request
InitUpsCarrier == InitAuth /\ InitRates /\ InitUps /\ providers = <<>>

SpecUps == InitUpsCarrier /\ [][NextUps]_vars

\* UpsCarrier called with a request without packages, beside a client of the
\* token module whose calls follow each other
InitNoPackage ==
    /\ InitAuth /\ InitRates /\ InitUps
    /\ providers = <<>>
    /\ request = [ValidRequest EXCEPT !.packages = <<>>]

NextNoPackage ==
    \/ \E c \in Callers : InFlight = {} /\ GetUpsAccessToken(c)
    \/ \E c \in Callers, resp \in Responses : GetUpsAccessTokenResume(c, resp)
    \/ Tick
    \/ UpsCarrier_getRates

SpecNoPackage == InitNoPackage /\ [][NextNoPackage]_vars

\* FetchClient.request called by itself, once
SpecClient ==
    Init /\ [][\E res \in ClientResponses : FetchClient_request(res)]_vars

\* mapUpsRateResponseToQuote called by itself, once
SpecMapper ==
    Init /\ [][\E res \in RateResponses \cup {NoContent} :
                    MapUpsRateResponseToQuote_call(res)]_vars

\* the rate service with the continuation of its await scheduled once the
\* promise it awaits has settled (the job queue runs every reaction)
SpecRatesFair ==
    /\ InitRS /\ [][NextRS]_vars
    /\ WF_vars(RateService_getRates_resume)
    /\ WF_vars(RateService_getRatesFromProvider_resume)

-----------------------------------------------------------------------------
(* Token cache: properties *)

BufferMs == REFRESH_BUFFER_SEC * 1000

\* the entry e expires more than 300 s after time t
Valid(e, t) == e # Null /\ e[1].expiresAtMs - t > BufferMs

\* no entry, or one whose remaining lifetime at time t is at most 300 s
Stale(e, t) == e = Null \/ e[1].expiresAtMs - t <= BufferMs

\* the token requests that were sent and are not answered yet
Outstanding == {n \in 1..fetchCount : ~fetches[n].done}

\* C1 (as stated): every token getUpsAccessToken returns, cached or just
\* acquired, has at least 300 s of lifetime left when it is returned.
C1_Original ==
    last.pc = "returned" => last.remainingMs >= BufferMs

\* C1 (amended): a token served from the cache has more than 300 s of lifetime
\* left when it is returned; a token that was just acquired is returned
\* whatever its lifetime, with expires_in minus the time the acquisition took
\* left of it.
C1_Amended ==
    last.pc = "returned" =>
        IF last.acquisitions = 0
        THEN last.remainingMs > BufferMs
        ELSE last.remainingMs =
                 fetches[last.fetchId].answer[1].expires_in * 1000 - last.latencyMs

C1_Witness ==
    /\ last.pc = "returned"
    /\ last.acquisitions = 0
    /\ last.nowMs > fetches[last.token].sentAtMs

\* C2: a call that finds a cached entry expiring more than 300 s from now
\* returns that entry's token, sends no token request and leaves the cache as
\* it is, so that the next call in that state returns the same token.
C2_CacheHit ==
    (last.pc # "idle" /\ Valid(last.seen, last.nowMs)) =>
        /\ last.pc = "returned"
        /\ last.token = last.seen[1].accessToken
        /\ last.acquisitions = 0
        /\ last.fetchId = 0
        /\ last.cacheAfter = last.seen

C2_Witness ==
    /\ last.pc = "returned"
    /\ Valid(last.seen, last.nowMs)
    /\ burst.hits >= 2

\* C3: a call that finds the cache empty, or its entry with 300 s or less left
\* (exactly 300 s and already expired included), sends exactly one token
\* request, and the token it returns is the one of that request's answer.
C3_OneAcquisition ==
    /\ \A c \in InFlight :
           /\ calls[c].acquisitions = 1
           /\ Stale(calls[c].seen, calls[c].nowMs)
    /\ (last.pc # "idle" /\ Stale(last.seen, last.nowMs)) =>
           /\ last.acquisitions = 1
           /\ fetches[last.fetchId].done
           /\ last.pc = "returned" =>
                  /\ last.token = fetches[last.fetchId].answer[1].access_token
                  /\ last.seen # Null => last.token # last.seen[1].accessToken

\* ... reached with exactly 300 s left
C3_Witness ==
    /\ last.pc = "returned"
    /\ last.seen # Null
    /\ last.seen[1].expiresAtMs - last.nowMs = BufferMs
    /\ last.acquisitions = 1

\* C4 (as stated): the read-check-refresh-write sequence is a critical
\* section: at most one token request is in flight at any time, and no call's
\* cache write replaces the write of a call whose request overlapped its own.
C4_CriticalSection ==
    /\ Cardinality(InFlight) <= 1
    /\ ~ (/\ last.pc = "returned"
          /\ last.acquisitions = 1
          /\ last.cacheBefore # Null
          /\ last.cacheBefore[1].accessToken \in last.inFlightWith)

\* C5: calls that run while other calls are in progress and find a valid
\* cached entry send no token request, and all of them return the token of
\* that entry.
C5_ConcurrentHits ==
    /\ \A c \in InFlight : ~Valid(calls[c].seen, calls[c].nowMs)
    /\ burst.hits > 0 =>
           /\ cached # Null
           /\ burst.tokens = {cached[1].accessToken}
    /\ Cardinality(Outstanding) = Cardinality(InFlight)

C5_Witness ==
    /\ burst.hits >= 2
    /\ InFlight # {}

\* C6: the cache is empty or holds the token and the expiry of one and the
\* same answer; a call sends at most one token request, so the requests not
\* answered yet are never more than the calls in progress.
C6_NoTornEntry ==
    /\ cached # Null =>
           \E n \in 1..fetchCount :
               /\ fetches[n].answer # Null
               /\ cached[1].accessToken = fetches[n].answer[1].access_token
               /\ cached[1].expiresAtMs =
                      fetches[n].sentAtMs + fetches[n].answer[1].expires_in * 1000
    /\ \A c \in Callers : calls[c].acquisitions <= 1
    /\ last.acquisitions <= 1
    /\ Cardinality(Outstanding) <= Cardinality(InFlight)

\* ... with an entry written by a call during which clearUpsTokenCache ran,
\* while another call's request is still in flight
C6_Witness ==
    /\ cached # Null
    /\ last.pc = "returned"
    /\ last.clearedDuring
    /\ last.inFlightWith # {}
    /\ InFlight # {}

\* C7 (as stated): the first call that starts after clearUpsTokenCache sends a
\* token request, and never returns a token whose request was sent before the
\* clearUpsTokenCache.
C7_FreshAfterInvalidate ==
    (last.pc # "idle" /\ last.firstAfterClear) =>
        /\ last.acquisitions = 1
        /\ last.pc = "returned" => fetches[last.token].epoch = last.epoch

\* C8: a call whose acquisition fails throws that error, returns no token and
\* writes nothing to the cache: the cache after the failure is the cache
\* before it, and the cache the call found when nothing else ran meanwhile.
C8_FailureLeavesCache ==
    last.pc = "failed" =>
        /\ last.error # "none"
        /\ last.token = 0
        /\ last.cacheAfter = last.cacheBefore
        /\ (last.inFlightWith = {} /\ ~last.clearedDuring) =>
               last.cacheAfter = last.seen

\* ... with a credential in the cache
C8_Witness ==
    /\ last.pc = "failed"
    /\ last.cacheAfter # Null
    /\ last.cacheAfter = cached

\* C21 (as stated): the cache moves only from Empty (no entry, or one with
\* 300 s or less left) to Valid when an acquisition succeeds, and from Valid
\* to Empty when time passes or clearUpsTokenCache is called; a Valid entry is
\* never replaced by another.
C21_StateMachine ==
    [][/\ (~Valid(cached, now) /\ Valid(cached', now')) =>
              /\ last'.pc = "returned"
              /\ last'.acquisitions = 1
              /\ cached' = last'.cacheAfter
              /\ cached' # cached
       /\ (Valid(cached, now) /\ ~Valid(cached', now')) =>
              (now' > now \/ clears' > clears)
       /\ (Valid(cached, now) /\ Valid(cached', now')) => cached' = cached
      ]_vars

\* the same transitions, for the steps of calls whose token request
\* overlapped no other
C21_WithoutOverlap ==
    [][(last' # last => last'.inFlightWith = {}) =>
          /\ (~Valid(cached, now) /\ Valid(cached', now')) =>
                 /\ last'.pc = "returned"
                 /\ last'.acquisitions = 1
                 /\ cached' = last'.cacheAfter
          /\ (Valid(cached, now) /\ ~Valid(cached', now')) =>
                 (now' > now \/ clears' > clears)
          /\ (Valid(cached, now) /\ Valid(cached', now')) => cached' = cached
      ]_vars

\* C22: a call that acquired a token and returned leaves in the cache one new
\* entry, the token of the answer with the expiry nowMs + expires_in * 1000
\* (nowMs as sampled when the call started), whatever entry was there before,
\* and returns the token of that entry.
C22_StoredEntry ==
    (last.pc = "returned" /\ last.acquisitions = 1) =>
        LET answer == fetches[last.fetchId].answer[1]
        IN  /\ last.cacheAfter =
                   <<[accessToken |-> answer.access_token,
                      expiresAtMs |-> last.nowMs + answer.expires_in * 1000]>>
            /\ last.token = last.cacheAfter[1].accessToken
            /\ last.token = last.fetchId

\* ... replacing an entry that another call stored meanwhile
C22_Witness ==
    /\ last.pc = "returned"
    /\ last.acquisitions = 1
    /\ last.cacheBefore # Null
    /\ last.cacheBefore # last.seen
    /\ last.cacheAfter[1].expiresAtMs # last.cacheBefore[1].expiresAtMs

\* C23 (as stated): fetchUpsAccessToken, given a response, fails with the
\* token-request error on a non-2xx status and with the missing-access_token
\* error on every 2xx response without that field, and returns otherwise.
C23_AcquireErrors ==
    (last.pc = "failed" /\ last.error # "fetch rejected") =>
        last.error \in {"UPS OAuth token request failed",
                        "Invalid UPS token response: missing access_token"}

-----------------------------------------------------------------------------
(* Rate service: properties *)

Registered == {providers[i] : i \in DOMAIN providers}

FailedNames == {n \in Registered : produced[n].status = "rejected"}

Carriers(list) == [i \in DOMAIN list |-> list[i].carrier]

Occurrences(list, n) == Cardinality({i \in DOMAIN list : list[i].carrier = n})

Position(seq, n) == CHOOSE i \in DOMAIN seq : seq[i] = n

\* the order of the own property keys of config.providers: integer-like names
\* first, by ascending number, then the other names as they were inserted
Before(a, b) ==
    IF IsArrayIndex(a)
    THEN ~IsArrayIndex(b) \/ ArrayIndex(a) < ArrayIndex(b)
    ELSE ~IsArrayIndex(b) /\ Position(providers, a) < Position(providers, b)

\* C9: with k registered adapters of which m fail, getRates returns k - m
\* quotes and, when m > 0, m errors; every registered name is in exactly one
\* of the two lists, once; with m = 0 the result has no errors field.
C9_Counts ==
    rsPc = "done" =>
        LET r == result[1]
            k == Len(providers)
            m == Cardinality(FailedNames)
        IN  /\ Len(r.quotes) = k - m
            /\ m > 0 => (r.hasErrors /\ Len(r.errors) = m)
            /\ m = 0 => (~r.hasErrors /\ r.errors = <<>>)
            /\ \A n \in Registered :
                   /\ Occurrences(r.quotes, n) + Occurrences(r.errors, n) = 1
                   /\ Occurrences(r.errors, n) = 1 <=> n \in FailedNames
            /\ \A i \in DOMAIN r.quotes : r.quotes[i].carrier \in Registered
            /\ \A i \in DOMAIN r.errors : r.errors[i].carrier \in Registered

C9_Witness ==
    /\ rsPc = "done"
    /\ Len(providers) >= 3
    /\ Cardinality(FailedNames) = 1
    /\ result[1].hasErrors

PendingEntries == {i \in DOMAIN promises : promises[i].status = "pending"}

\* every invocation made so far, as <<adapter name, request received>>
AllInvocations ==
    UNION {{<<n, invocations[n][k]>> : k \in DOMAIN invocations[n]} : n \in Names}

NoInvocation == \A n \in Names : invocations[n] = <<>>

\* C11: getRates has a result only when every invocation it launched has
\* settled; while one is in flight it has neither returned nor failed, also
\* after a sibling was rejected; and the result reports every entry, with the
\* state its own promise settled in.
C11_AllSettledJoin ==
    /\ (rsPc = "awaiting" /\ PendingEntries # {}) => result = <<>>
    /\ rsPc = "done" =>
           /\ PendingEntries = {}
           /\ Len(result[1].quotes) + Len(result[1].errors) = Len(entries)
           /\ \A i \in DOMAIN entries :
                  IF promises[i].status = "fulfilled"
                  THEN Occurrences(result[1].quotes, entries[i]) = 1
                  ELSE /\ promises[i].status = "rejected"
                       /\ Occurrences(result[1].errors, entries[i]) = 1

\* ... where an adapter failed while a sibling, which then succeeded, was
\* still in flight
C11_Witness ==
    /\ rsPc = "done"
    /\ \E i, j \in DOMAIN arrival :
           /\ i < j
           /\ promises[arrival[i]].status = "rejected"
           /\ promises[arrival[j]].status = "fulfilled"

\* C12: for a valid request getRates returns a result and never fails,
\* whatever the adapters do: every rejection, thrown at once or later, is in
\* the errors list under its adapter's name with the reason the adapter gave,
\* and every quote is in the quotes list as its adapter produced it.
C12_ErrorIsolation ==
    (RateRequestInputValid(request) /\ rsPc = "done") =>
        /\ DOMAIN result[1] = {"quotes", "hasErrors", "errors"}
        /\ \A i \in DOMAIN entries :
               /\ promises[i].status = "rejected" =>
                      \E k \in DOMAIN result[1].errors :
                          result[1].errors[k] =
                              [carrier |-> entries[i], error |-> promises[i].value]
               /\ promises[i].status = "fulfilled" =>
                      \E k \in DOMAIN result[1].quotes :
                          result[1].quotes[k] =
                              [carrier |-> entries[i], quote |-> promises[i].value]
        /\ \A k \in DOMAIN result[1].errors : result[1].errors[k].error \in Errors

\* ... with two adapters failing differently beside one that succeeds
C12_Witness ==
    /\ rsPc = "done"
    /\ Len(result[1].quotes) = 1
    /\ Len(result[1].errors) = 2
    /\ result[1].errors[1].error # result[1].errors[2].error

\* C13 (as stated): getRates called with a request the schema rejects fails
\* with ValidationError, and no adapter's getRates is invoked.
C13_ValidationBlocksDispatch ==
    (asked = "none" /\ rsPc # "idle" /\ ~RateRequestInputValid(request)) =>
        /\ NoInvocation
        /\ result = <<Rejected("ValidationError")>>

\* C14 (as stated): getRatesFromProvider called with a name that is not
\* registered fails with the unknown-provider error and invokes no adapter.
C14_UnknownAdapter ==
    (asked # "none" /\ asked \notin Registered) =>
        /\ rsPc = "one_done"
        /\ result = <<Rejected(UnknownProviderError)>>
        /\ NoInvocation

\* C15: getRatesFromProvider called with a registered name invokes that
\* adapter, once, with the caller's request, and no other adapter; it settles
\* as that adapter's promise does: the same quote, or the same reason, not
\* wrapped in a result with an errors list.
C15_OneAdapter ==
    asked \in Registered =>
        /\ rsPc \in {"one_awaiting", "one_done"}
        /\ invocations[asked] = <<request>>
        /\ \A n \in Names \ {asked} : invocations[n] = <<>>
        /\ rsPc = "one_awaiting" => result = <<>>
        /\ rsPc = "one_done" =>
               /\ result = <<produced[asked]>>
               /\ produced[asked] \in Outcomes

\* ... asking for an adapter that is not the first one, which fails
C15_Witness ==
    /\ rsPc = "one_done"
    /\ Len(providers) >= 2
    /\ asked = providers[2]
    /\ result[1].status = "rejected"

\* C16: with no adapter registered, getRates returns at once a result with
\* an empty quotes list and no errors field, and launches nothing.
C16_ZeroAdapters ==
    (providers = <<>> /\ asked = "none") =>
        /\ rsPc \in {"idle", "done"}
        /\ promises = <<>>
        /\ NoInvocation
        /\ rsPc = "done" =>
               /\ result[1].quotes = <<>>
               /\ ~result[1].hasErrors
               /\ result[1].errors = <<>>

C16_Witness ==
    /\ providers = <<>>
    /\ rsPc = "done"
    /\ result # <<>>

\* C17: when getRates suspends at its await, every registered adapter has
\* been invoked, whether or not any other adapter has completed: an adapter
\* that is still pending holds back the start of no other.
C17_AllStartedBeforeAwait ==
    rsPc = "awaiting" =>
        /\ \A n \in Registered : Len(invocations[n]) >= 1
        /\ \A i \in DOMAIN entries :
               promises[i].status # "pending" => Len(invocations[entries[i]]) >= 1

\* ... with nothing completed yet
C17_Witness ==
    /\ rsPc = "awaiting"
    /\ Len(entries) >= 3
    /\ PendingEntries = DOMAIN entries
    /\ \A n \in Registered : invocations[n] # <<>>

\* C18: getRates has no timeout and cancels nothing.  While an invocation is
\* pending getRates has no result; a settled promise stays as it settled and
\* an invocation made is never withdrawn; and once every invocation has
\* settled getRates returns.
C18_NoTimeoutNoCancel ==
    /\ [](rsPc = "awaiting" => (PendingEntries # {} => result = <<>>))
    /\ [][/\ \A i \in DOMAIN promises :
                 promises[i].status # "pending" =>
                     (i \in DOMAIN promises' /\ promises'[i] = promises[i])
          /\ \A n \in Names :
                 /\ Len(invocations'[n]) >= Len(invocations[n])
                 /\ SubSeq(invocations'[n], 1, Len(invocations[n])) = invocations[n]
         ]_vars
    /\ (rsPc = "awaiting" /\ PendingEntries = {}) ~> (rsPc = "done")

\* ... an adapter hangs after a sibling failed
C18_Witness ==
    /\ rsPc = "awaiting"
    /\ PendingEntries # {}
    /\ \E i \in DOMAIN promises : promises[i].status = "rejected"
    /\ result = <<>>

\* C19: nothing is retried.  Within one getRates call every registered
\* adapter's getRates is invoked once and no other; the one UpsCarrier call
\* sends at most one token request and at most one rate request, and none
\* after it has settled, however it settled; a call whose token request
\* failed sends no rate request.
C19_NoRetry ==
    /\ [](/\ rsPc \in {"awaiting", "done"} =>
                 /\ \A n \in Names :
                        Len(invocations[n]) = IF n \in Registered THEN 1 ELSE 0
                 /\ ups.pc # "idle"
          /\ ups.tokenRequests <= 1
          /\ Len(ups.posts) <= 1
          /\ fetchCount <= ups.calls
          /\ (ups.pc = "failed" /\ ups.tokenRequests = 1) => fetches[fetchCount].done
          /\ (ups.pc = "failed" /\ ups.tokenRequests = 1
                  /\ fetches[fetchCount].answer = Null) => ups.posts = <<>>)
    /\ [][(ups.pc \in {"done", "failed"} /\ ups'.pc # "idle") =>
              /\ ups'.posts = ups.posts
              /\ ups'.tokenRequests = ups.tokenRequests
              /\ fetchCount' = fetchCount]_vars

\* ... a call that acquired a token and whose rate request then failed,
\* beside another adapter that failed
C19_Witness ==
    /\ rsPc = "done"
    /\ Len(providers) = 2
    /\ ups.pc = "failed"
    /\ ups.tokenRequests = 1
    /\ Len(ups.posts) = 1
    /\ Len(result[1].errors) = 2

\* C20: neither getRates nor getRatesFromProvider changes the request or the
\* registration: every adapter invocation receives the request the caller
\* passed, and config.providers is after every step what it was before.
C20_Immutable ==
    /\ [](\A inv \in AllInvocations : inv[2] = request)
    /\ [][providers' = providers /\ request' = request]_vars

\* ... with a request of two packages handed to two adapters
C20_Witness ==
    /\ Len(request.packages) = 2
    /\ Cardinality({n \in Names : invocations[n] = <<request>>}) >= 2
    /\ rsPc = "done"

-----------------------------------------------------------------------------
(* HTTP client, UPS mapper and UPS carrier: properties *)

\* the call of FetchClient.request has settled
Settled == http.pc = "done"

\* C24 (as stated): every failure of FetchClient.request reaches the caller
\* as a FetchError.
C24_Original ==
    (Settled /\ http.outcome.status = "rejected") =>
        http.outcome.error[1].name = "FetchError"

\* C24 (amended): a failure that follows a response is a FetchError, the one
\* of a non-2xx status carrying the status, the status text and the raw body;
\* when `fetch` or the reading of the body rejects, that rejection reaches
\* the caller as it is, and is no FetchError.
C24_Amended ==
    Settled =>
        /\ (http.response.kind = "response" /\ ~ResponseOk(http.response.status)) =>
               /\ http.outcome.status = "rejected"
               /\ http.outcome.error[1].name = "FetchError"
               /\ http.outcome.error[1].message = "Request failed"
               /\ http.outcome.error[1].status = <<http.response.status>>
               /\ http.outcome.error[1].statusText =
                      <<StatusText(http.response.status)>>
               /\ http.outcome.error[1].body = <<http.response.text>>
        /\ (http.response.kind = "response" /\ http.outcome.status = "rejected") =>
               http.outcome.error[1].name = "FetchError"
        /\ http.response.kind # "response" =>
               /\ http.outcome.status = "rejected"
               /\ http.outcome.error[1].name # "FetchError"
               /\ http.outcome.error[1].status = <<>>

\* a 404 with a body that is JSON
C24_Witness ==
    /\ Settled
    /\ http.response.kind = "response"
    /\ http.response.status = 404
    /\ http.response.text.json # <<>>
    /\ http.outcome.status = "rejected"
    /\ http.outcome.error[1].body = <<http.response.text>>

\* C25: on a 2xx response FetchClient.request returns undefined when the body
\* is empty, the parsed document when the body is JSON, and fails with the
\* FetchError "Invalid JSON response" carrying status and body otherwise;
\* exactly one of the three happens.
C25_TwoHundred ==
    (Settled /\ http.response.kind = "response"
        /\ ResponseOk(http.response.status)) =>
        LET text == http.response.text
            out == http.outcome
            noContent == out.status = "fulfilled" /\ out.data[1].type = "undefined"
            parsed == out.status = "fulfilled" /\ out.data[1].type # "undefined"
            invalid == /\ out.status = "rejected"
                       /\ out.error[1].name = "FetchError"
                       /\ out.error[1].message = "Invalid JSON response"
                       /\ out.error[1].status = <<http.response.status>>
                       /\ out.error[1].body = <<text>>
        IN  /\ noContent <=> text.length = 0
            /\ parsed <=> (text.length > 0 /\ text.json # <<>>)
            /\ parsed => out.data = text.json
            /\ invalid <=> (text.length > 0 /\ text.json = <<>>)
            /\ Cardinality({c \in {"noContent", "parsed", "invalid"} :
                              \/ c = "noContent" /\ noContent
                              \/ c = "parsed" /\ parsed
                              \/ c = "invalid" /\ invalid}) = 1

\* a 201 whose body is not JSON
C25_Witness ==
    /\ Settled
    /\ http.response.kind = "response"
    /\ http.response.status = 201
    /\ http.response.text.length > 0
    /\ http.response.text.json = <<>>
    /\ http.outcome.status = "rejected"
    /\ http.outcome.error[1].message = "Invalid JSON response"

\* the mapper has been called with an object
MappedObject == mapped.pc = "done" /\ mapped.input.type = "object"

\* the rated shipments of the mapper's argument, as the response lists them
InputShipments ==
    IF mapped.input.RateResponse = <<>> THEN <<>>
    ELSE IF mapped.input.RateResponse[1].RatedShipment = <<>> THEN <<>>
    ELSE mapped.input.RateResponse[1].RatedShipment[1].items

\* the itemized charges of a rated shipment
ItemizedOf(shipment) ==
    IF shipment.NegotiatedRateCharges = <<>> THEN <<>>
    ELSE IF shipment.NegotiatedRateCharges[1].ItemizedCharges = <<>> THEN <<>>
    ELSE shipment.NegotiatedRateCharges[1].ItemizedCharges[1]

\* the positions of the charges with code FS or "fuel", in any case, in
\* their description
FuelPositions(itemized) ==
    {i \in DOMAIN itemized :
        \/ itemized[i].Code = <<"FS">>
        \/ /\ itemized[i].Description # <<>>
           /\ \E k \in 1..Len(itemized[i].Description[1]) :
                 /\ k + 3 <= Len(itemized[i].Description[1])
                 /\ itemized[i].Description[1][k] \in {"f", "F"}
                 /\ itemized[i].Description[1][k + 1] \in {"u", "U"}
                 /\ itemized[i].Description[1][k + 2] \in {"e", "E"}
                 /\ itemized[i].Description[1][k + 3] \in {"l", "L"}}

\* the amount a MonetaryValue stands for where it is one of a finite number
AmountOfText(optionalText) ==
    IF optionalText = <<>> THEN Finite(0)
    ELSE CASE optionalText[1] = "10.88" -> Finite(1088)
           [] optionalText[1] = "11.63" -> Finite(1163)
           [] optionalText[1] = "1.09"  -> Finite(109)
           [] optionalText[1] = "12abc" -> Finite(1200)
           [] OTHER                     -> Finite(0)

\* C26: when the first rated shipment has a standard total and a negotiated
\* total, totalPrice and breakdown.other are the negotiated total,
\* breakdown.basePrice is the standard total, and breakdown.fuelSurcharge is
\* the amount of the first itemized charge with code FS or with "fuel", in
\* any case, in its description (absent when there is none).
C26_NegotiatedTotals ==
    (MappedObject /\ Len(InputShipments) > 0
        /\ InputShipments[1].TotalCharges # <<>>
        /\ InputShipments[1].NegotiatedRateCharges # <<>>
        /\ InputShipments[1].NegotiatedRateCharges[1].TotalCharge # <<>>) =>
        LET first == InputShipments[1]
            negotiated == first.NegotiatedRateCharges[1].TotalCharge[1]
            fuel == FuelPositions(ItemizedOf(first))
            quote == mapped.output.quote[1]
        IN  /\ ~mapped.output.threw
            /\ quote.totalPrice = AmountOfText(negotiated.MonetaryValue)
            /\ quote.breakdown # <<>>
            /\ quote.breakdown[1].basePrice =
                   AmountOfText(first.TotalCharges[1].MonetaryValue)
            /\ quote.breakdown[1].other = <<AmountOfText(negotiated.MonetaryValue)>>
            /\ fuel = {} => quote.breakdown[1].fuelSurcharge = <<>>
            /\ fuel # {} =>
                   \E i \in fuel :
                       /\ \A j \in fuel : i <= j
                       /\ quote.breakdown[1].fuelSurcharge =
                              <<AmountOfText(ItemizedOf(first)[i].MonetaryValue)>>

\* negotiated 10.88, standard 11.63, fuel 1.09
C26_Witness ==
    /\ MappedObject
    /\ InputShipments = <<GroundShipment>>
    /\ mapped.output.quote[1].totalPrice = Finite(1088)
    /\ mapped.output.quote[1].breakdown =
           <<[basePrice |-> Finite(1163), fuelSurcharge |-> <<Finite(109)>>,
              other |-> <<Finite(1088)>>]>>

\* C27: when the rate response has no rated shipment (no RateResponse, no
\* RatedShipment, or an empty list), the mapper returns the sentinel quote,
\* without breakdown, and UpsCarrier.getRates fulfils.
C27_Sentinel ==
    (MappedObject /\ InputShipments = <<>>) =>
        /\ mapped.output =
               [threw |-> FALSE,
                quote |-> <<[serviceCode |-> "ups", serviceName |-> "UPS",
                             totalPrice |-> Finite(0), currency |-> "USD",
                             breakdown |-> <<>>]>>]
        /\ ups.pc = "done"
        /\ ups.outcome.status = "fulfilled"

\* the response lists no shipment
C27_Witness ==
    /\ MappedObject
    /\ mapped.input.RateResponse # <<>>
    /\ mapped.input.RateResponse[1].RatedShipment # <<>>
    /\ mapped.input.RateResponse[1].RatedShipment[1].isArray
    /\ InputShipments = <<>>
    /\ ups.pc = "done"
    /\ Len(ups.posts) = 1

\* C28: when the response lists several rated shipments, the quote is the
\* one of the response that holds the first of them alone.
C28_FirstShipment ==
    (MappedObject /\ Len(InputShipments) > 1) =>
        /\ mapped.output =
               mapUpsRateResponseToQuote(
                   RateResponseOf(<<OneShipment(InputShipments[1])>>))
        /\ ~mapped.output.threw
        /\ InputShipments[1].Service # <<>> =>
               mapped.output.quote[1].serviceCode = InputShipments[1].Service[1].Code[1]

\* the second shipment is cheaper than the first
C28_Witness ==
    /\ MappedObject
    /\ Len(InputShipments) = 2
    /\ InputShipments[1] = GroundShipment
    /\ InputShipments[2].TotalCharges[1].MonetaryValue = <<"1.09">>
    /\ mapped.output.quote[1].totalPrice = Finite(1088)
    /\ mapped.output.quote[1].serviceCode = "03"

\* the MonetaryValue is missing, empty, or parses to no finite number
NoAmount(charges) ==
    \/ charges = <<>>
    \/ charges[1].MonetaryValue = <<>>
    \/ charges[1].MonetaryValue[1] \in {"", "abc", "Infinity"}

\* C29: the mapper, given an object, returns; every amount of the quote is a
\* finite number; and the total and the base price are 0 when the charge
\* they are read from has no MonetaryValue, an empty one, or one that parses
\* to no finite number.
C29_AmountOrZero ==
    (MappedObject /\ Len(InputShipments) > 0) =>
        LET first == InputShipments[1]
            total == IF first.NegotiatedRateCharges # <<>>
                        /\ first.NegotiatedRateCharges[1].TotalCharge # <<>>
                     THEN first.NegotiatedRateCharges[1].TotalCharge
                     ELSE first.TotalCharges
            quote == mapped.output.quote[1]
        IN  /\ ~mapped.output.threw
            /\ quote.totalPrice.kind = "finite"
            /\ NoAmount(total) => quote.totalPrice = Finite(0)
            /\ ~NoAmount(total) => quote.totalPrice = AmountOfText(total[1].MonetaryValue)
            /\ quote.breakdown # <<>> =>
                   /\ quote.breakdown[1].basePrice.kind = "finite"
                   /\ NoAmount(first.TotalCharges) =>
                          quote.breakdown[1].basePrice = Finite(0)
                   /\ \A i \in DOMAIN quote.breakdown[1].fuelSurcharge :
                          quote.breakdown[1].fuelSurcharge[i].kind = "finite"
                   /\ \A i \in DOMAIN quote.breakdown[1].other :
                          quote.breakdown[1].other[i].kind = "finite"

\* the standard total is "abc", the negotiated one "Infinity"
C29_Witness ==
    /\ MappedObject
    /\ Len(InputShipments) = 1
    /\ InputShipments[1].TotalCharges # <<>>
    /\ InputShipments[1].TotalCharges[1].MonetaryValue = <<"abc">>
    /\ InputShipments[1].NegotiatedRateCharges # <<>>
    /\ InputShipments[1].NegotiatedRateCharges[1].TotalCharge # <<>>
    /\ InputShipments[1].NegotiatedRateCharges[1].TotalCharge[1].MonetaryValue
           = <<"Infinity">>
    /\ mapped.output.quote[1].totalPrice = Finite(0)
    /\ mapped.output.quote[1].breakdown[1].basePrice = Finite(0)

\* C30: every rate request UpsCarrier.getRates posts is the one it would
\* post if the request held its first package alone; the weight and the
\* sides it transmits are those of packages[0], in pounds and inches.
C30_FirstPackageOnly ==
    \A i \in DOMAIN ups.posts :
        LET pkg == request.packages[1]
            sent == ups.posts[i].body.Package
        IN  /\ ups.posts[i].body =
                   UpsRateRequestBody([request EXCEPT !.packages = <<pkg>>])
            /\ sent.PackageWeight.Weight.text =
                   IF pkg.weightUnit = "KG"
                   THEN [num |-> pkg.weight * 220462, den |-> 100000]
                   ELSE [num |-> pkg.weight, den |-> 1]
            /\ sent.Dimensions.Length.text =
                   IF pkg.dimensions = <<>> THEN [num |-> 5, den |-> 1]
                   ELSE IF pkg.dimensions[1].unit = "CM"
                   THEN [num |-> pkg.dimensions[1].length * 100, den |-> 254]
                   ELSE [num |-> pkg.dimensions[1].length, den |-> 1]

\* a metric first package followed by another
C30_Witness ==
    /\ Len(ups.posts) = 1
    /\ Len(request.packages) > 1
    /\ request.packages[1].weightUnit = "KG"
    /\ request.packages[2] # request.packages[1]
    /\ ups.pc = "done"

\* C31: within one UpsCarrier.getRates call no rate request is sent while the
\* token is awaited; the rate request sent carries "Bearer" followed by the
\* token getUpsAccessToken returned to this call; and when getUpsAccessToken
\* throws, no rate request is sent and getRates rejects with that error.
C31_HeaderBeforePost ==
    /\ [](/\ ups.pc = "auth" => ups.posts = <<>>
          /\ \A i \in DOMAIN ups.posts :
                 /\ last.pc = "returned"
                 /\ ups.posts[i].authorization = <<"Bearer", last.token>>
                 /\ last.acquisitions = 1 =>
                        last.token = fetches[last.fetchId].answer[1].access_token)
    /\ [][(ups.pc = "auth" /\ last' # last /\ last'.pc = "failed") =>
              /\ ups'.pc = "failed"
              /\ ups'.posts = <<>>
              /\ ups'.outcome = [status |-> "rejected", value |-> last'.error]
              /\ http' = http]_vars

\* a second call, whose token comes from the cache
C31_Witness ==
    /\ ups.calls = 2
    /\ ups.pc = "done"
    /\ Len(ups.posts) = 1
    /\ last.pc = "returned"
    /\ last.acquisitions = 0
    /\ ups.posts[1].authorization = <<"Bearer", cached[1].accessToken>>

\* C32: the cache is one slot for every config.  While the entry cached is
\* more than 300 s from expiry no token request is sent, whichever config
\* getUpsAccessToken is called with, and the call returns the cached token,
\* also when that token was acquired with another config.
C32_OneSlot ==
    [][Valid(cached, now) =>
           /\ fetchCount' = fetchCount
           /\ (last' # last /\ last'.nowMs = now /\ last'.acquisitions = 0) =>
                  /\ last'.pc = "returned"
                  /\ last'.token = cached[1].accessToken
                  /\ cached' = cached]_vars

\* configB is given the token acquired with configA
C32_Witness ==
    /\ last.pc = "returned"
    /\ last.acquisitions = 0
    /\ last.config = "configB"
    /\ fetches[last.token].config = "configA"
    /\ fetchCount = 1

\* C33: the expiry stored by an acquiring call counts from the clock sampled
\* when the call started, the time its token request was sent: it is that
\* time plus expires_in, hence the time the answer arrived, less what the
\* request took, plus expires_in - never later than arrival plus expires_in.
C33_ExpiryFromEntry ==
    (last.pc = "returned" /\ last.acquisitions = 1) =>
        LET lifetimeMs == fetches[last.fetchId].answer[1].expires_in * 1000
            arrivedAtMs == last.nowMs + last.latencyMs
        IN  /\ last.nowMs = fetches[last.fetchId].sentAtMs
            /\ last.latencyMs >= 0
            /\ last.cacheAfter[1].expiresAtMs = arrivedAtMs - last.latencyMs + lifetimeMs
            /\ last.cacheAfter[1].expiresAtMs <= arrivedAtMs + lifetimeMs
            /\ last.remainingMs = lifetimeMs - last.latencyMs

\* the answer took time to arrive
C33_Witness ==
    /\ last.pc = "returned"
    /\ last.acquisitions = 1
    /\ last.latencyMs > 0
    /\ fetches[last.fetchId].answer[1].expires_in = 600
    /\ last.cacheAfter[1].expiresAtMs < now + 600000

\* C34: every acquisition that succeeds writes its own credential when it
\* completes, over whatever entry is there; so once no acquisition is under
\* way, and the cache has not been cleared meanwhile, the cache holds the
\* credential of the acquisition that completed last.
C34_LastWriterWins ==
    /\ []((InFlight = {} /\ last.pc = "returned" /\ last.acquisitions = 1
              /\ clears = last.epoch) =>
             /\ cached # Null
             /\ cached[1].accessToken = last.fetchId
             /\ cached[1].expiresAtMs =
                    last.nowMs + fetches[last.fetchId].answer[1].expires_in * 1000)
    /\ [][(last' # last /\ last'.pc = "returned" /\ last'.acquisitions = 1) =>
              /\ cached' # Null
              /\ cached'[1].accessToken = last'.fetchId
              /\ cached'[1].expiresAtMs =
                     last'.nowMs + fetches'[last'.fetchId].answer[1].expires_in * 1000
          ]_vars

\* the call that completes last started first, and replaces an entry that
\* would have expired later than its own
C34_Witness ==
    /\ InFlight = {}
    /\ last.pc = "returned"
    /\ last.acquisitions = 1
    /\ last.inFlightWith # {}
    /\ last.cacheBefore # Null
    /\ last.cacheBefore[1].accessToken > last.fetchId
    /\ last.cacheBefore[1].expiresAtMs > last.cacheAfter[1].expiresAtMs
    /\ cached = last.cacheAfter

\* C35: `cached` changes only in the step of a getUpsAccessToken call whose
\* acquisition succeeded, which writes its entry, and in clearUpsTokenCache,
\* which empties it.  A direct fetchUpsAccessToken, a getUpsAccessToken that
\* returns the cached token or fails, and every step of RateService,
\* FetchClient and the mapper leave it as it is.
C35_CacheFrame ==
    [][/\ cached' # cached =>
              \/ cached' = Null /\ clears' = clears + 1
              \/ /\ last' # last
                 /\ last'.pc = "returned"
                 /\ last'.acquisitions = 1
                 /\ cached' = last'.cacheAfter
       /\ (fetchCount' > fetchCount /\ calls' = calls) => cached' = cached
       /\ (last' # last /\ last'.acquisitions = 0) => cached' = cached
       /\ (last' # last /\ last'.pc = "failed") => cached' = cached
       /\ rateVars' # rateVars => cached' = cached
       /\ (http' # http \/ mapped' # mapped) => cached' = cached
      ]_vars

\* a token was acquired directly, every other operation has run, and the
\* cache is still empty
C35_Witness ==
    /\ fetchCount = 1
    /\ fetches[1].done
    /\ fetches[1].answer # Null
    /\ last = NoCall
    /\ clears = 0
    /\ cached = Null
    /\ rsPc = "done"
    /\ http.pc = "done"
    /\ mapped.pc = "done"

\* the token requests that had failed when the last call started
FailedBefore ==
    {n \in 1..fetchCount :
        /\ n < last.fetchId
        /\ n \notin last.inFlightWith
        /\ fetches[n].done
        /\ fetches[n].answer = Null}

\* C36: a failed acquisition is not remembered.  A call fails only on its own
\* token request; a call returns without a request only a token the endpoint
\* issued, from an entry with more than 300 s left; and a call that finds the
\* cache empty or stale after an earlier failure sends a new request, whose
\* token on success is the one it returns and the one in the cache.
C36_FailureNotRemembered ==
    /\ last.pc = "failed" =>
           /\ last.acquisitions = 1
           /\ fetches[last.fetchId].done
           /\ fetches[last.fetchId].answer = Null
           /\ fetches[last.fetchId].sentAtMs = last.nowMs
    /\ (last.pc = "returned" /\ last.acquisitions = 0) =>
           /\ Valid(last.seen, last.nowMs)
           /\ last.token \in 1..fetchCount
           /\ fetches[last.token].answer # Null
    /\ (last.pc # "idle" /\ Stale(last.seen, last.nowMs)) =>
           /\ last.acquisitions = 1
           /\ last.fetchId \in 1..fetchCount
           /\ last.fetchId \notin FailedBefore
    /\ (last.pc = "returned" /\ last.acquisitions = 1 /\ FailedBefore # {}) =>
           /\ last.token = last.fetchId
           /\ last.cacheAfter # Null
           /\ last.cacheAfter[1].accessToken = last.fetchId

\* the first acquisition failed, the next call found the cache still empty,
\* acquired token 2 and left it in the cache
C36_Witness ==
    /\ last.pc = "returned"
    /\ last.acquisitions = 1
    /\ last.fetchId = 2
    /\ FailedBefore = {1}
    /\ last.seen = Null
    /\ cached # Null
    /\ cached[1].accessToken = 2

\* the entries whose adapter threw, and those whose adapter gave a quote
ThrownEntries ==
    SelectSeq([i \in DOMAIN entries |-> i], LAMBDA i : promises[i].status = "rejected")

QuotedEntries ==
    SelectSeq([i \in DOMAIN entries |-> i], LAMBDA i : promises[i].status = "fulfilled")

\* C37: an adapter whose getRates throws at the call is isolated as one whose
\* promise rejects.  Every adapter is still invoked, once and with the
\* request; getRates goes on to its await and returns a result, in which each
\* adapter that threw is in errors under its name with what it threw and each
\* other adapter has its quote.
C37_ThrowIsolated ==
    /\ rsPc \in {"idle", "awaiting", "done"}
    /\ (rsPc # "idle" /\ entries # <<>>) =>
           \A i \in DOMAIN entries : invocations[entries[i]] = <<request>>
    /\ rsPc = "awaiting" =>
           \A i \in DOMAIN entries :
               promises[i].status = "rejected" =>
                   /\ promises[i].value \in Errors
                   /\ \E k \in DOMAIN arrival : arrival[k] = i
    /\ (rsPc = "done" /\ entries # <<>>) =>
           /\ Len(result) = 1
           /\ result[1].hasErrors = (ThrownEntries # <<>>)
           /\ result[1].errors =
                  [k \in DOMAIN ThrownEntries |->
                      [carrier |-> entries[ThrownEntries[k]],
                       error |-> promises[ThrownEntries[k]].value]]
           /\ result[1].quotes =
                  [k \in DOMAIN QuotedEntries |->
                      [carrier |-> entries[QuotedEntries[k]],
                       quote |-> promises[QuotedEntries[k]].value]]

\* of three adapters the second threw: the result has its error and the
\* quotes of the two others
C37_Witness ==
    /\ rsPc = "done"
    /\ Len(entries) = 3
    /\ promises[1].status = "fulfilled"
    /\ promises[2].status = "rejected"
    /\ promises[3].status = "fulfilled"
    /\ result[1].errors = <<[carrier |-> entries[2], error |-> promises[2].value]>>
    /\ Len(result[1].quotes) = 2
    /\ result[1].quotes[2].carrier = entries[3]

\* C38: UpsCarrier.getRates called with a request without packages fails with
\* "At least one package is required" in the step of the call: no token is
\* asked for, no token request and no rate request is sent, and the token
\* cache and everything else in the token module stay as they were.
C38_NoPackage ==
    /\ [](request.packages = <<>> =>
              /\ ups.pc \in {"idle", "failed"}
              /\ ups.tokenRequests = 0
              /\ ups.posts = <<>>
              /\ ups.slot = 0
              /\ http = NoHttp
              /\ mapped = NoMapped)
    /\ [][(request.packages = <<>> /\ ups' # ups) =>
              /\ ups.pc = "idle"
              /\ ups'.pc = "failed"
              /\ ups'.calls = ups.calls + 1
              /\ ups'.outcome =
                     [status |-> "rejected",
                      value |-> "At least one package is required"]
              /\ cached' = cached
              /\ fetchCount' = fetchCount
              /\ fetches' = fetches
              /\ calls' = calls
              /\ last' = last]_vars

\* the call failed and the cache holds the token another client acquired
C38_Witness ==
    /\ request.packages = <<>>
    /\ ups.pc = "failed"
    /\ ups.outcome.value = "At least one package is required"
    /\ cached # Null
    /\ fetchCount = 1
    /\ ups.tokenRequests = 0


=============================================================================
